---------------------------- MODULE Spec2Model ----------------------------
(***************************************************************************)
(* Music-Player: the real-time audio delivery pipeline.                    *)
(*                                                                         *)
(*   Player        (src/src/player/player.cpp)       controller + producer *)
(*   AudioOutput   (src/src/audio/audio_output.cpp)  SPSC ring + callback  *)
(*   FFmpegDecoder (src/src/decoder/ffmpeg_decoder.cpp) sample source      *)
(*                                                                         *)
(* Three threads: the controller (the GUI thread calling load/play/stop),  *)
(* the producer (Player::decodeThreadFunc) and the device thread running   *)
(* the PortAudio stream callback.  A step holds one access to state that   *)
(* another thread may change at that time, with the thread-local work      *)
(* around it; the copy loops of write and of the callback are steps of     *)
(* their own, between the index loads and the index store.                 *)
(*                                                                         *)
(* A float is a fixed-point integer counting units of 1/FloatOne: s/32768  *)
(* and a product with volume 0.0 or 1.0 are exact in that representation,  *)
(* other products are cut to a multiple of 1/FloatOne.  size_t is SizeBits *)
(* wide.                                                                   *)
(***************************************************************************)
EXTENDS Integers, Sequences, FiniteSets, TLC

\* ------------------------------------------------------------------ bounds
\* frames a media file holds at most
MaxStream == 4
\* frames one decode call appends at most
MaxBatch == 2
\* frames the device requests per callback at most
MaxRequest == 2

\* frames one write call of the AudioOutput test thread offers at most
MaxTestWrite == 6
\* frames the device requests per callback at most, on the AudioOutput under test
MaxTestRequest == 10
\* frames of test data the test thread holds
TestFrames == 12

\* largest of the small arguments nextPowerOfTwo is called with
MaxPowerArg == 40
\* largest sample rate init is called with on the AudioOutput under test
MaxTestRate == 6
\* samples in the batch the stub decoder yields, at most
MaxTestBatch == 4

\* formats of the media files that can be opened: a stereo file whose ring
\* holds 2 frames and a mono file whose ring holds 4
MediaFormats == {[sr |-> 1, ch |-> 2], [sr |-> 2, ch |-> 1]}

\* ------------------------------------------------------- program constants
\* divisor of the int16 -> float conversion
Int16Scale == 32768
\* ring capacity covers this many seconds of audio
BufferSeconds == 2
\* width of size_t in the model (any width whose modulus the capacity divides)
SizeBits == 16

FloatOne == 2 * Int16Scale
\* FloatOne = Limb * Limb
Limb == 2 ^ 8
SizeModulus == 2 ^ SizeBits
\* content of a device output sample the callback has not assigned
Unfilled == 0 - 4 * FloatOne

\* ----------------------------------------------------------------- helpers
Min(a, b) == IF a < b THEN a ELSE b

RECURSIVE BitAnd(_, _)
BitAnd(a, b) ==
    IF a = 0 \/ b = 0 THEN 0
    ELSE (a % 2) * (b % 2) + 2 * BitAnd(a \div 2, b \div 2)

RECURSIVE BitOr(_, _)
BitOr(a, b) ==
    IF a = 0 THEN b
    ELSE IF b = 0 THEN a
    ELSE (IF a % 2 = 1 \/ b % 2 = 1 THEN 1 ELSE 0) + 2 * BitOr(a \div 2, b \div 2)

\* v |= v >> k
OrShift(v, k) == BitOr(v, v \div (2 ^ k))

nextPowerOfTwoNoDecrement(v) ==
    IF v = 0 THEN 1
    ELSE (OrShift(OrShift(OrShift(OrShift(OrShift(v, 1), 2), 4), 8), 16) + 1)
             % SizeModulus

\* AudioOutput::nextPowerOfTwo (the shifts beyond SizeBits are no-ops)
nextPowerOfTwo(v) ==
    IF v = 0 THEN 1
    ELSE (OrShift(OrShift(OrShift(OrShift(OrShift(v - 1, 1), 2), 4), 8), 16) + 1)
             % SizeModulus

\* size_t subtraction, wrapping
SizeSub(a, b) == (a - b) % SizeModulus

\* (head - tail) & (capacity - 1)
UsedFrames(head, tail, cap) == BitAnd(SizeSub(head, tail), cap - 1)

FreeFramesNoReserve(head, tail, cap) == BitAnd(SizeSub(tail, head), cap - 1)
FreeFramesAllSlots(head, tail, cap) == cap - BitAnd(SizeSub(head, tail), cap - 1)
\* (tail - head - 1) & (capacity - 1)
FreeFrames(head, tail, cap) == BitAnd(SizeSub(SizeSub(tail, head), 1), cap - 1)

\* (i + f) & (capacity - 1)
Wrap(i, cap) == BitAnd(i % SizeModulus, cap - 1)

\* static_cast<float>(s) / 32768.0f
NormalizeBy32767(s) == (s * FloatOne) \div (Int16Scale - 1)
\* static_cast<float>(intBuf[i]) / 32768.0f
Normalize(s) == (s * FloatOne) \div Int16Scale

NormalizeSeq(q) == [i \in 1..Len(q) |-> Normalize(q[i])]

Abs(x) == IF x < 0 THEN 0 - x ELSE x

\* a * b / FloatOne for a, b >= 0 by long multiplication in two limbs, so
\* that no intermediate value leaves 32 bits
MulMagnitude(a, b) ==
    LET ah == a \div Limb
        al == a % Limb
        bh == b \div Limb
        bl == b % Limb
    IN  ah * bh + ((ah * bl + al * bh) * Limb + al * bl) \div FloatOne

\* the float product a * b: sign times magnitude
FloatMul(a, b) ==
    IF (a < 0) = (b < 0) THEN MulMagnitude(Abs(a), Abs(b))
    ELSE 0 - MulMagnitude(Abs(a), Abs(b))

ScaleNoClamp(sample, vol) == FloatMul(sample, vol)
\* sample * vol, then the clamp to [-1.0, 1.0]
ScaleClamp(sample, vol) ==
    LET p == FloatMul(sample, vol)
    IN  IF p > FloatOne THEN FloatOne
        ELSE IF p < 0 - FloatOne THEN 0 - FloatOne
        ELSE p

\* the k-th int16 sample (1-based) of the file being decoded: a monotonically
\* increasing pattern
StreamSample(k) == k

Zeros(n) == [i \in 1..n |-> 0]

\* ------------------------------------------------------------------- state
VARIABLES
    \* Player
    decoder_,          \* unique_ptr<FFmpegDecoder> is non-null
    audioOut_,         \* unique_ptr<AudioOutput> is non-null
    playing_,
    stopRequested_,
    decoderThread_,    \* "none" | "joinable"
    \* controller thread: the Player call in progress and its last result
    ctlPc,             \* "idle" | "join" | "drain" | "drainSleep" | "halt" | "loadBody"
    ctlOp,             \* "none" | "stop" | "load"
    lastCall,          \* [op, ret, from]: the last completed call
    \* FFmpegDecoder
    decOpen,           \* fmt_ctx_ .. frame_ are all non-null
    eof_,
    decPos,            \* samples of the file handed out so far
    out_sample_rate_,
    out_channels_,
    \* AudioOutput
    buffer_,
    capacityFrames_,
    channels_,
    head_,
    tail_,
    stream_,           \* "null" | "open" | "started" | "stopping"
    dummyMode_,
    volume_,
    \* producer thread (decodeThreadFunc) and the write call it is inside
    prodPc,            \* "none" | "loop" | "inner" | "write" | "wcopy" | "wpublish"
                       \* | "sleep" | "done"
    intBuf,
    floatBuf,
    nSamples,
    totalFrames,
    writtenFrames,
    wFrames,           \* write's frames argument: offset of the pointer into floatBuf
    wCount,            \* write's frameCount argument
    wHead,
    wTail,
    toWrite,
    \* device thread: the stream callback in progress
    cbPc,              \* "idle" | "copy" | "publish"
    cbFrames,          \* framesPerBuffer of this invocation
    cTail,
    cHead,
    framesToRead,
    outBuf,
    \* history of the current AudioOutput object
    accepted,          \* samples of the frames write has accepted, in order
    delivered          \* samples the callback copied out of the ring, in order

playerVars == <<decoder_, audioOut_, playing_, stopRequested_, decoderThread_>>
ctlVars == <<ctlPc, ctlOp, lastCall>>
decVars == <<decOpen, eof_, decPos, out_sample_rate_, out_channels_>>
ringVars == <<buffer_, capacityFrames_, channels_, head_, tail_>>
devVars == <<stream_, dummyMode_, volume_>>
prodVars == <<prodPc, intBuf, floatBuf, nSamples, totalFrames, writtenFrames>>
writeVars == <<wFrames, wCount, wHead, wTail, toWrite>>
cbVars == <<cbPc, cbFrames, cTail, cHead, framesToRead, outBuf>>
histVars == <<accepted, delivered>>

vars == <<playerVars, ctlVars, decVars, ringVars, devVars, prodVars, writeVars,
          cbVars, histVars>>

\* ------------------------------------------------------------ constructors
DecoderLeftOpen ==
    /\ decOpen' = decOpen
    /\ eof_' = FALSE
    /\ decPos' = 0

DecoderClosedKeepsContexts ==
    /\ decOpen' = decOpen
    /\ eof_' = FALSE
    /\ decPos' = 0

\* FFmpegDecoder::cleanup: no contexts, eof_ cleared
DecoderClosed ==
    /\ decOpen' = FALSE
    /\ eof_' = FALSE
    /\ decPos' = 0

\* AudioOutput::AudioOutput
AudioOutputFresh ==
    /\ buffer_' = <<>>
    /\ capacityFrames_' = 0
    /\ channels_' = 0
    /\ head_' = 0
    /\ tail_' = 0
    /\ stream_' = "null"
    /\ dummyMode_' = FALSE
    /\ volume_' = FloatOne
    /\ accepted' = <<>>
    /\ delivered' = <<>>

\* Player::Player
Init ==
    /\ decoder_ = FALSE
    /\ audioOut_ = FALSE
    /\ playing_ = FALSE
    /\ stopRequested_ = FALSE
    /\ decoderThread_ = "none"
    /\ ctlPc = "idle"
    /\ ctlOp = "none"
    /\ lastCall = [op |-> "none", ret |-> TRUE, from |-> "idle"]
    /\ decOpen = FALSE
    /\ eof_ = FALSE
    /\ decPos = 0
    /\ out_sample_rate_ = 0
    /\ out_channels_ = 0
    /\ buffer_ = <<>>
    /\ capacityFrames_ = 0
    /\ channels_ = 0
    /\ head_ = 0
    /\ tail_ = 0
    /\ stream_ = "null"
    /\ dummyMode_ = FALSE
    /\ volume_ = FloatOne
    /\ prodPc = "none"
    /\ intBuf = <<>>
    /\ floatBuf = <<>>
    /\ nSamples = 0
    /\ totalFrames = 0
    /\ writtenFrames = 0
    /\ wFrames = 0
    /\ wCount = 0
    /\ wHead = 0
    /\ wTail = 0
    /\ toWrite = 0
    /\ cbPc = "idle"
    /\ cbFrames = 0
    /\ cTail = 0
    /\ cHead = 0
    /\ framesToRead = 0
    /\ outBuf = <<>>
    /\ accepted = <<>>
    /\ delivered = <<>>

IsPlayingUntilExit == playing_ /\ prodPc # "done"
\* Player::isPlaying
IsPlaying == playing_

\* the session state the controller sees when it makes a call
SessionState ==
    IF playing_ THEN "Playing"
    ELSE IF decoder_ /\ audioOut_ THEN "Loaded"
    ELSE "Idle"


\* ------------------------------------------------- FFmpegDecoder (source)
\* decoder_->close(); decoder_.reset(): cleanup, then the object is gone
DecoderClose ==
    /\ DecoderClosed
    /\ out_sample_rate_' = 0
    /\ out_channels_' = 0

\* ------------------------------------------------------------ AudioOutput
\* AudioOutput::size
Size == UsedFrames(head_, tail_, capacityFrames_)

AvailableNoReserve == FreeFramesNoReserve(head_, tail_, capacityFrames_)
\* AudioOutput::available
Available == FreeFrames(head_, tail_, capacityFrames_)

\* AudioOutput::stop on a stream that was never started has no callback to wait for
AudioOutputStopReady == dummyMode_ \/ stream_ \in {"null", "open"}

AudioOutputStoppedKeepsStream == stream_
\* stream_ after AudioOutput::stop: Pa_CloseStream and stream_ = nullptr,
\* unless dummyMode_ returned before
AudioOutputStopped == IF dummyMode_ THEN stream_ ELSE "null"

AudioOutputInitKeepsRing(sr, ch, dev) ==
    LET cap == nextPowerOfTwo(sr * BufferSeconds)
    IN  /\ capacityFrames_' = cap
        /\ channels_' = ch
        /\ buffer_' = Zeros(cap * ch)
        /\ head_' = head_
        /\ tail_' = tail_
        /\ dummyMode_' = (dev = "nodev")
        /\ stream_' = IF dev = "ok" THEN "open" ELSE "null"
        /\ volume_' = FloatOne
        /\ accepted' = <<>>
        /\ delivered' = <<>>

\* AudioOutput::init(sr, ch, 512); dev is what PortAudio answers:
\* "paerr" (Pa_Initialize fails), "nodev" (no default output device),
\* "openerr" (Pa_OpenStream fails), "ok"
AudioOutputInit(sr, ch, dev) ==
    LET cap == nextPowerOfTwo(sr * BufferSeconds)
    IN  /\ capacityFrames_' = cap
        /\ channels_' = ch
        /\ buffer_' = Zeros(cap * ch)
        /\ head_' = 0
        /\ tail_' = 0
        /\ dummyMode_' = (dev = "nodev")
        /\ stream_' = IF dev = "ok" THEN "open" ELSE "null"
        /\ volume_' = FloatOne
        /\ accepted' = <<>>
        /\ delivered' = <<>>

InitSucceedsAlways(dev) == TRUE
\* what init returns
InitSucceeds(dev) == dev \in {"nodev", "ok"}

\* ----------------------------------------------------- Player: controller
Returns(op, ret, from) ==
    /\ lastCall' = [op |-> op, ret |-> ret, from |-> from]
    /\ ctlPc' = "idle"
    /\ ctlOp' = "none"

\* the part of Player::stop taken when playing_ is false: release both objects
StopNotPlaying ==
    /\ decoder_' = FALSE
    /\ audioOut_' = FALSE
    /\ DecoderClose
    /\ AudioOutputFresh
    /\ UNCHANGED <<playing_, stopRequested_, decoderThread_>>

\* Player::stop, entered from the controller or as the first statement of load
StopEnter(op) ==
    /\ ctlPc = "idle"
    /\ IF ~playing_
       THEN /\ AudioOutputStopReady
            /\ StopNotPlaying
            /\ IF op = "load"
               THEN /\ ctlPc' = "loadBody"
                    /\ ctlOp' = "load"
                    /\ lastCall' = [op |-> "load", ret |-> FALSE, from |-> SessionState]
               ELSE Returns("stop", TRUE, SessionState)
       ELSE /\ stopRequested_' = TRUE
            /\ ctlPc' = "join"
            /\ ctlOp' = op
            /\ lastCall' = [op |-> op, ret |-> FALSE, from |-> SessionState]
            /\ UNCHANGED <<decoder_, audioOut_, playing_, decoderThread_, decVars,
                           ringVars, devVars, histVars>>
    /\ UNCHANGED <<prodVars, writeVars, cbVars>>

Stop == StopEnter("stop")

StopJoinDetaches ==
    /\ ctlPc = "join"
    /\ decoderThread_' = "none"
    /\ ctlPc' = "drain"
    /\ UNCHANGED <<decoder_, audioOut_, playing_, stopRequested_, ctlOp, lastCall,
                   decVars, ringVars, devVars, prodVars, writeVars, cbVars, histVars>>

\* decoderThread_.join()
StopJoin ==
    /\ ctlPc = "join"
    /\ IF decoderThread_ = "joinable"
       THEN /\ prodPc = "done"
            /\ decoderThread_' = "none"
            /\ prodPc' = "none"
       ELSE UNCHANGED <<decoderThread_, prodPc>>
    /\ ctlPc' = "drain"
    /\ UNCHANGED <<decoder_, audioOut_, playing_, stopRequested_, ctlOp, lastCall,
                   decVars, ringVars, devVars, intBuf, floatBuf, nSamples,
                   totalFrames, writtenFrames, writeVars, cbVars, histVars>>

\* while (audioOut_->size() > 0)
StopDrainTest ==
    /\ ctlPc = "drain"
    /\ ctlPc' = IF audioOut_ /\ Size > 0 THEN "drainSleep" ELSE "halt"
    /\ UNCHANGED <<playerVars, ctlOp, lastCall, decVars, ringVars, devVars,
                   prodVars, writeVars, cbVars, histVars>>

DrainGivesUpOnStopFlag == stopRequested_
\* sleep_for(50ms); if (!playing_.load()) break;
DrainGivesUp == ~playing_

StopDrainSleep ==
    /\ ctlPc = "drainSleep"
    /\ ctlPc' = IF DrainGivesUp THEN "halt" ELSE "drain"
    /\ UNCHANGED <<playerVars, ctlOp, lastCall, decVars, ringVars, devVars,
                   prodVars, writeVars, cbVars, histVars>>

\* audioOut_->stop() begins: Pa_StopStream asks the device for no further
\* callback and waits for the one that is running
StopHaltRequest ==
    /\ ctlPc = "halt"
    /\ audioOut_ /\ ~dummyMode_ /\ stream_ = "started"
    /\ stream_' = "stopping"
    /\ UNCHANGED <<playerVars, ctlVars, decVars, ringVars, dummyMode_, volume_,
                   prodVars, writeVars, cbVars, histVars>>

\* audioOut_->stop() returns; decoder_->close(); decoder_.reset(); the two flags
StopHalt ==
    /\ ctlPc = "halt"
    /\ stream_ # "started" \/ ~audioOut_ \/ dummyMode_
    /\ stream_ = "stopping" => cbPc = "idle"
    /\ stream_' = IF audioOut_ THEN AudioOutputStopped ELSE stream_
    /\ decoder_' = FALSE
    /\ DecoderClose
    /\ playing_' = FALSE
    /\ stopRequested_' = FALSE
    /\ IF ctlOp = "load"
       THEN /\ ctlPc' = "loadBody"
            /\ UNCHANGED <<ctlOp, lastCall>>
       ELSE Returns("stop", TRUE, lastCall.from)
    /\ UNCHANGED <<audioOut_, decoderThread_, ringVars, dummyMode_, volume_,
                   prodVars, writeVars, cbVars, histVars>>

\* Player::load: stop() first
Load == StopEnter("load")

\* Player::load after stop(): open the decoder, then init a new AudioOutput.
\* opened: FFmpegDecoder::open succeeds; fmt: the file's format
LoadBody ==
    /\ ctlPc = "loadBody"
    /\ \E opened \in BOOLEAN, fmt \in MediaFormats,
          dev \in {"paerr", "nodev", "openerr", "ok"} :
          IF ~opened
          THEN /\ decoder_' = FALSE
               /\ DecoderClose
               /\ Returns("load", FALSE, lastCall.from)
               /\ UNCHANGED <<audioOut_, ringVars, devVars, histVars>>
          ELSE IF ~InitSucceeds(dev)
          THEN /\ decoder_' = FALSE
               /\ audioOut_' = FALSE
               /\ DecoderClose
               /\ AudioOutputFresh
               /\ Returns("load", FALSE, lastCall.from)
          ELSE /\ decoder_' = TRUE
               /\ audioOut_' = TRUE
               /\ decOpen' = TRUE
               /\ eof_' = FALSE
               /\ decPos' = 0
               /\ out_sample_rate_' = fmt.sr
               /\ out_channels_' = fmt.ch
               /\ AudioOutputInit(fmt.sr, fmt.ch, dev)
               /\ Returns("load", TRUE, lastCall.from)
    /\ UNCHANGED <<playing_, stopRequested_, decoderThread_, prodVars, writeVars,
                   cbVars>>

\* AudioOutput::start; started: Pa_StartStream succeeds
StartSucceeds(started) == dummyMode_ \/ (stream_ # "null" /\ started)

AlreadyPlayingReturnsFalse == FALSE
\* what play() returns when playing_ is already set
AlreadyPlayingResult == TRUE

NoFileLoadedAudioOnly == ~audioOut_
\* if (!decoder_ || !audioOut_)
NoFileLoaded == ~decoder_ \/ ~audioOut_

PlayWhilePlayingSpawns ==
    /\ ctlPc = "idle"
    /\ \E started \in BOOLEAN :
          IF NoFileLoaded
          THEN /\ Returns("play", FALSE, SessionState)
               /\ UNCHANGED <<playerVars, stream_, prodPc, nSamples>>
          ELSE IF ~StartSucceeds(started)
          THEN /\ Returns("play", FALSE, SessionState)
               /\ UNCHANGED <<playerVars, stream_, prodPc, nSamples>>
          ELSE /\ stream_' = IF dummyMode_ THEN stream_ ELSE "started"
               /\ stopRequested_' = FALSE
               /\ playing_' = TRUE
               /\ decoderThread_' = "joinable"
               /\ prodPc' = "loop"
               /\ nSamples' = 0
               /\ Returns("play", TRUE, SessionState)
               /\ UNCHANGED <<decoder_, audioOut_>>
    /\ UNCHANGED <<decVars, ringVars, dummyMode_, volume_, intBuf, floatBuf,
                   totalFrames, writtenFrames, writeVars, cbVars, histVars>>

PlaySpawnsBeforeStart ==
    /\ ctlPc = "idle"
    /\ \E started \in BOOLEAN :
          IF NoFileLoaded
          THEN /\ Returns("play", FALSE, SessionState)
               /\ UNCHANGED <<playerVars, stream_, prodPc, nSamples>>
          ELSE IF playing_
          THEN /\ Returns("play", AlreadyPlayingResult, SessionState)
               /\ UNCHANGED <<playerVars, stream_, prodPc, nSamples>>
          ELSE /\ stream_' = IF dummyMode_ \/ ~StartSucceeds(started)
                             THEN stream_ ELSE "started"
               /\ stopRequested_' = FALSE
               /\ playing_' = TRUE
               /\ decoderThread_' = "joinable"
               /\ prodPc' = "loop"
               /\ nSamples' = 0
               /\ Returns("play", StartSucceeds(started), SessionState)
               /\ UNCHANGED <<decoder_, audioOut_>>
    /\ UNCHANGED <<decVars, ringVars, dummyMode_, volume_, intBuf, floatBuf,
                   totalFrames, writtenFrames, writeVars, cbVars, histVars>>

\* Player::play
Play ==
    /\ ctlPc = "idle"
    /\ \E started \in BOOLEAN :
          IF NoFileLoaded
          THEN /\ Returns("play", FALSE, SessionState)
               /\ UNCHANGED <<playerVars, stream_, prodPc, nSamples>>
          ELSE IF playing_
          THEN /\ Returns("play", AlreadyPlayingResult, SessionState)
               /\ UNCHANGED <<playerVars, stream_, prodPc, nSamples>>
          ELSE IF ~StartSucceeds(started)
          THEN /\ Returns("play", FALSE, SessionState)
               /\ UNCHANGED <<playerVars, stream_, prodPc, nSamples>>
          ELSE /\ stream_' = IF dummyMode_ THEN stream_ ELSE "started"
               /\ stopRequested_' = FALSE
               /\ playing_' = TRUE
               /\ decoderThread_' = "joinable"
               /\ prodPc' = "loop"
               /\ nSamples' = 0
               /\ Returns("play", TRUE, SessionState)
               /\ UNCHANGED <<decoder_, audioOut_>>
    /\ UNCHANGED <<decVars, ringVars, dummyMode_, volume_, intBuf, floatBuf,
                   totalFrames, writtenFrames, writeVars, cbVars, histVars>>

\* ------------------------------------------ producer: decodeThreadFunc
\* the int16 samples one decode call converts: frames whole frames of the file,
\* starting after the pos samples already handed out
DecodedSamples(pos, frames, ch) == [i \in 1..(frames * ch) |-> StreamSample(pos + i)]

DecodeIntoReplaces(out_buffer, samples) == samples
\* FFmpegDecoder::decode: out_buffer.insert(out_buffer.end(), ...)
DecodeInto(out_buffer, samples) == out_buffer \o samples

\* floatBuf.resize(n); floatBuf[i] = intBuf[i] / 32768.0f for i < n
ConvertBatch(buf, n) == NormalizeSeq(SubSeq(buf, 1, n))

\* size_t totalFrames = nSamples / channels;
TotalFrames(n, channels) == n \div channels

\* locals of a finished decodeThreadFunc / write call
ProducerLocalsGone ==
    /\ intBuf' = <<>>
    /\ floatBuf' = <<>>
    /\ nSamples' = 0
    /\ totalFrames' = 0
    /\ writtenFrames' = 0
    /\ wFrames' = 0
    /\ wCount' = 0

WriteLocalsGone ==
    /\ wHead' = 0
    /\ wTail' = 0
    /\ toWrite' = 0

EndOfStreamNegativeOnly(n) == n < 0
\* if (nSamples <= 0) break;
EndOfStream(n) == n <= 0

\* while (!stopRequested_) { nSamples = decoder_->decode(intBuf); if (nSamples <= 0) break;
\*   convert; totalFrames = nSamples / channels; writtenFrames = 0;
\* got: frames this decode call appends (0: end of file, or an FFmpeg error)
ProducerDecode ==
    /\ prodPc = "loop"
    /\ IF stopRequested_
       THEN /\ prodPc' = "done"
            /\ ProducerLocalsGone
            /\ UNCHANGED decVars
       ELSE \E got \in 0..MaxBatch, atEnd \in BOOLEAN :
            /\ got > 0 => /\ decOpen /\ ~eof_
                          /\ decPos + got * out_channels_ <= MaxStream * out_channels_
                          /\ ~atEnd
            /\ IF EndOfStream(got * out_channels_)
               THEN /\ prodPc' = "done"
                    /\ eof_' = (eof_ \/ atEnd)
                    /\ ProducerLocalsGone
                    /\ UNCHANGED <<decOpen, decPos, out_sample_rate_, out_channels_>>
               ELSE LET n == got * out_channels_
                        buf == DecodeInto(intBuf, DecodedSamples(decPos, got, out_channels_))
                    IN  /\ intBuf' = buf
                        /\ nSamples' = n
                        /\ decPos' = decPos + n
                        /\ floatBuf' = ConvertBatch(buf, n)
                        /\ totalFrames' = TotalFrames(n, out_channels_)
                        /\ writtenFrames' = 0
                        /\ prodPc' = "inner"
                        /\ UNCHANGED <<decOpen, eof_, out_sample_rate_, out_channels_,
                                       wFrames, wCount>>
    /\ UNCHANGED <<playerVars, ctlVars, ringVars, devVars, wHead, wTail, toWrite,
                   cbVars, histVars>>

WritePointerNoChannels(written, ch) == written
\* dataPtr + writtenFrames * channels
WritePointer(written, ch) == written * ch

ProducerInnerTestIgnoresStop ==
    /\ prodPc = "inner"
    /\ IF writtenFrames < totalFrames
       THEN /\ wFrames' = WritePointer(writtenFrames, out_channels_)
            /\ wCount' = totalFrames - writtenFrames
            /\ prodPc' = "write"
       ELSE /\ prodPc' = "loop"
            /\ UNCHANGED <<wFrames, wCount>>
    /\ UNCHANGED <<playerVars, ctlVars, decVars, ringVars, devVars, intBuf, floatBuf,
                   nSamples, totalFrames, writtenFrames, wHead, wTail, toWrite,
                   cbVars, histVars>>

\* while (writtenFrames < totalFrames && !stopRequested_) {
\*   canWrite = audioOut_->write(dataPtr + writtenFrames * channels, rest);
\* the loop test and the call, up to the entry of write
ProducerInnerTest ==
    /\ prodPc = "inner"
    /\ IF writtenFrames < totalFrames /\ ~stopRequested_
       THEN /\ wFrames' = WritePointer(writtenFrames, out_channels_)
            /\ wCount' = totalFrames - writtenFrames
            /\ prodPc' = "write"
       ELSE /\ prodPc' = "loop"
            /\ UNCHANGED <<wFrames, wCount>>
    /\ UNCHANGED <<playerVars, ctlVars, decVars, ringVars, devVars, intBuf, floatBuf,
                   nSamples, totalFrames, writtenFrames, wHead, wTail, toWrite,
                   cbVars, histVars>>

ToWriteAll(frameCount, freeFrames) == frameCount
\* size_t toWrite = std::min(frameCount, freeFrames);
ToWrite(frameCount, freeFrames) == Min(frameCount, freeFrames)

DummyWriteNothing(frameCount) == 0
\* if (dummyMode_) return frameCount;
DummyWrite(frameCount) == frameCount

\* AudioOutput::write up to toWrite: in dummy mode it returns at once (and
\* decodeThreadFunc handles canWrite), else it loads the two indexes
ProducerWriteBegin ==
    /\ prodPc = "write"
    /\ IF dummyMode_
       THEN /\ writtenFrames' = writtenFrames + DummyWrite(wCount)
            /\ prodPc' = IF DummyWrite(wCount) = 0 THEN "sleep" ELSE "inner"
            /\ UNCHANGED <<wHead, wTail, toWrite>>
       ELSE /\ wHead' = head_
            /\ wTail' = tail_
            /\ toWrite' = ToWrite(wCount, FreeFrames(head_, tail_, capacityFrames_))
            /\ prodPc' = "wcopy"
            /\ UNCHANGED writtenFrames
    /\ UNCHANGED <<playerVars, ctlVars, decVars, ringVars, devVars, intBuf, floatBuf,
                   nSamples, totalFrames, wFrames, wCount, cbVars, histVars>>

\* the samples of the n frames write takes from its frames argument
WriteSource(n) == SubSeq(floatBuf, wFrames + 1, wFrames + n * channels_)

\* index into buffer_ (1-based) of channel c of the f-th frame from index i
SlotIndex(i, f, c) == Wrap(i + f, capacityFrames_) * channels_ + c + 1

BufferNotYetWritten == buffer_
\* buffer_ after write's copy loop
BufferAfterWrite ==
    LET src == WriteSource(toWrite)
        written == {<<f, c>> : f \in 0..(toWrite - 1), c \in 0..(channels_ - 1)}
    IN  [k \in 1..Len(buffer_) |->
            IF \E fc \in written : SlotIndex(wHead, fc[1], fc[2]) = k
            THEN LET fc == CHOOSE x \in written : SlotIndex(wHead, x[1], x[2]) = k
                 IN  src[fc[1] * channels_ + fc[2] + 1]
            ELSE buffer_[k]]

\* AudioOutput::write: the copy loop
ProducerWriteCopy ==
    /\ prodPc = "wcopy"
    /\ buffer_' = BufferAfterWrite
    /\ prodPc' = "wpublish"
    /\ UNCHANGED <<playerVars, ctlVars, decVars, capacityFrames_, channels_, head_,
                   tail_, devVars, intBuf, floatBuf, nSamples, totalFrames,
                   writtenFrames, writeVars, cbVars, histVars>>

PublishedHeadUnmasked == (wHead + toWrite) % SizeModulus
PublishedHeadRequested == Wrap(wHead + wCount, capacityFrames_)
\* (head + toWrite) & (capacityFrames_ - 1)
PublishedHead == Wrap(wHead + toWrite, capacityFrames_)

\* AudioOutput::write: head_.store, return toWrite; then in decodeThreadFunc
\* if (canWrite == 0) { sleep_for(5ms); continue; } writtenFrames += canWrite;
ProducerWritePublish ==
    /\ prodPc = "wpublish"
    /\ head_' = PublishedHead
    /\ accepted' = accepted \o WriteSource(toWrite)
    /\ IF toWrite = 0
       THEN /\ prodPc' = "sleep"
            /\ UNCHANGED writtenFrames
       ELSE /\ prodPc' = "inner"
            /\ writtenFrames' = writtenFrames + toWrite
    /\ WriteLocalsGone
    /\ UNCHANGED <<playerVars, ctlVars, decVars, buffer_, capacityFrames_, channels_,
                   tail_, devVars, intBuf, floatBuf, nSamples, totalFrames, wFrames,
                   wCount, cbVars, delivered>>

\* the 5 ms sleep is over: back to the inner loop's condition
ProducerSleep ==
    /\ prodPc = "sleep"
    /\ prodPc' = "inner"
    /\ UNCHANGED <<playerVars, ctlVars, decVars, ringVars, devVars, intBuf, floatBuf,
                   nSamples, totalFrames, writtenFrames, writeVars, cbVars, histVars>>

\* ------------------------------------------- device: the stream callback
\* the callback invoked with framesPerBuffer = n: its two index loads and
\* framesToRead
CallbackInvoked(n) ==
    /\ stream_ = "started"
    /\ cbPc = "idle"
    /\ cbFrames' = n
    /\ outBuf' = [i \in 1..(n * channels_) |-> Unfilled]
    /\ framesToRead' = Min(n, UsedFrames(head_, tail_, capacityFrames_))
    /\ cTail' = tail_
    /\ cHead' = head_
    /\ cbPc' = "copy"
    /\ UNCHANGED <<playerVars, ctlVars, decVars, ringVars, devVars, prodVars,
                   writeVars, histVars>>

\* the device asks for 1..MaxRequest frames
CallbackBegin == \E n \in 1..MaxRequest : CallbackInvoked(n)

CopiedOutFromStart ==
    [i \in 1..(framesToRead * channels_) |->
        ScaleClamp(buffer_[SlotIndex(0, (i - 1) \div channels_, (i - 1) % channels_)],
                   volume_)]
\* the samples the copy loop assigns: framesToRead frames, scaled and clamped
CopiedOut ==
    [i \in 1..(framesToRead * channels_) |->
        ScaleClamp(buffer_[SlotIndex(cTail, (i - 1) \div channels_, (i - 1) % channels_)],
                   volume_)]

SilenceFillNone(out, from) == out
\* memset(outBuf + start, 0, ...): everything from sample index from on
SilenceFill(out, from) == [i \in 1..Len(out) |-> IF i > from THEN 0 ELSE out[i]]

CallbackCopyClears ==
    /\ cbPc = "copy"
    /\ LET got == CopiedOut
           filled == [i \in 1..Len(outBuf) |-> IF i <= Len(got) THEN got[i] ELSE outBuf[i]]
           read == {SlotIndex(cTail, f, c) : f \in 0..(framesToRead - 1),
                                            c \in 0..(channels_ - 1)}
       IN  /\ outBuf' = IF framesToRead < cbFrames
                        THEN SilenceFill(filled, framesToRead * channels_)
                        ELSE filled
           /\ delivered' = delivered \o got
           /\ buffer_' = [k \in 1..Len(buffer_) |-> IF k \in read THEN 0 ELSE buffer_[k]]
    /\ cbPc' = "publish"
    /\ UNCHANGED <<playerVars, ctlVars, decVars, capacityFrames_, channels_, head_,
                   tail_, devVars, prodVars, writeVars, cbFrames, cTail, cHead,
                   framesToRead, accepted>>

\* the copy loop and the silence fill
CallbackCopy ==
    /\ cbPc = "copy"
    /\ LET got == CopiedOut
           filled == [i \in 1..Len(outBuf) |-> IF i <= Len(got) THEN got[i] ELSE outBuf[i]]
       IN  /\ outBuf' = IF framesToRead < cbFrames
                        THEN SilenceFill(filled, framesToRead * channels_)
                        ELSE filled
           /\ delivered' = delivered \o got
    /\ cbPc' = "publish"
    /\ UNCHANGED <<playerVars, ctlVars, decVars, ringVars, devVars, prodVars,
                   writeVars, cbFrames, cTail, cHead, framesToRead, accepted>>

PublishedTailRequested == Wrap(cTail + cbFrames, capacityFrames_)
\* (tail + framesToRead) & (capacityFrames_ - 1)
PublishedTail == Wrap(cTail + framesToRead, capacityFrames_)

\* tail_.store((tail + framesToRead) & mask); return paContinue
CallbackPublish ==
    /\ cbPc = "publish"
    /\ tail_' = PublishedTail
    /\ cbPc' = "idle"
    /\ cbFrames' = 0
    /\ cTail' = 0
    /\ cHead' = 0
    /\ framesToRead' = 0
    /\ outBuf' = <<>>
    /\ UNCHANGED <<playerVars, ctlVars, decVars, buffer_, capacityFrames_, channels_,
                   head_, devVars, prodVars, writeVars, histVars>>

\* --------------------------------- AudioOutput driven through its interface
\* One AudioOutput used on its own: a test thread feeds the frames of floatBuf
\* through write, in calls of any size, and calls setVolume, while the device
\* invokes the stream callback.  lastCall is [op, arg, ret] here.

\* init(4, 1, 512) gives a ring of 8 frames, init(2, 1, 512) one of 4
RingFormat == [sr |-> 4, ch |-> 1]
VolumeFormat == [sr |-> 2, ch |-> 1]

\* a monotonically increasing pattern, normalized as the producer does
PatternData == NormalizeSeq([k \in 1..TestFrames |-> StreamSample(k)])

\* full-scale samples, samples beyond full scale, and one inside
FullScaleData ==
    <<FloatOne, 0 - FloatOne, 3 * (FloatOne \div 2), 0 - 3 * (FloatOne \div 2),
      FloatOne \div 2>>

\* arguments of setVolume: below 0.0, inside [0.0, 1.0], above 1.0 up to the
\* 2.0 of the GUI's slider
VolumeArgs ==
    {0 - (FloatOne \div 2), 0, FloatOne \div 2, FloatOne, 3 * (FloatOne \div 2),
     2 * FloatOne}

\* the state after AudioOutput out; out.init(fmt.sr, fmt.ch, 512); out.start()
\* on a machine with an output device, the test thread holding data
TestInit(fmt, data) ==
    /\ decoder_ = FALSE
    /\ audioOut_ = FALSE
    /\ playing_ = FALSE
    /\ stopRequested_ = FALSE
    /\ decoderThread_ = "none"
    /\ ctlPc = "idle"
    /\ ctlOp = "none"
    /\ lastCall = [op |-> "start", arg |-> 0, ret |-> 1]
    /\ decOpen = FALSE
    /\ eof_ = FALSE
    /\ decPos = 0
    /\ out_sample_rate_ = 0
    /\ out_channels_ = 0
    /\ capacityFrames_ = nextPowerOfTwo(fmt.sr * BufferSeconds)
    /\ channels_ = fmt.ch
    /\ buffer_ = Zeros(nextPowerOfTwo(fmt.sr * BufferSeconds) * fmt.ch)
    /\ head_ = 0
    /\ tail_ = 0
    /\ stream_ = "started"
    /\ dummyMode_ = FALSE
    /\ volume_ = FloatOne
    /\ prodPc = "none"
    /\ intBuf = <<>>
    /\ floatBuf = data
    /\ nSamples = 0
    /\ totalFrames = 0
    /\ writtenFrames = 0
    /\ wFrames = 0
    /\ wCount = 0
    /\ wHead = 0
    /\ wTail = 0
    /\ toWrite = 0
    /\ cbPc = "idle"
    /\ cbFrames = 0
    /\ cTail = 0
    /\ cHead = 0
    /\ framesToRead = 0
    /\ outBuf = <<>>
    /\ accepted = <<>>
    /\ delivered = <<>>

\* the test thread calls write(floatBuf + writtenFrames * channels_, n):
\* AudioOutput::write up to toWrite
TestWriteBegin(maxN) ==
    /\ prodPc = "none"
    /\ \E n \in 1..maxN :
          /\ (writtenFrames + n) * channels_ <= Len(floatBuf)
          /\ wCount' = n
          /\ toWrite' = ToWrite(n, FreeFrames(head_, tail_, capacityFrames_))
    /\ wFrames' = WritePointer(writtenFrames, channels_)
    /\ wHead' = head_
    /\ wTail' = tail_
    /\ prodPc' = "wcopy"
    /\ UNCHANGED <<playerVars, ctlVars, decVars, ringVars, devVars, intBuf, floatBuf,
                   nSamples, totalFrames, writtenFrames, cbVars, histVars>>

\* AudioOutput::write: head_.store, return toWrite to the test thread, which
\* offers the frames after the accepted ones next
TestWritePublish ==
    /\ prodPc = "wpublish"
    /\ head_' = PublishedHead
    /\ accepted' = accepted \o WriteSource(toWrite)
    /\ writtenFrames' = writtenFrames + toWrite
    /\ lastCall' = [op |-> "write", arg |-> wCount, ret |-> toWrite]
    /\ prodPc' = "none"
    /\ wFrames' = 0
    /\ wCount' = 0
    /\ WriteLocalsGone
    /\ UNCHANGED <<playerVars, ctlPc, ctlOp, decVars, buffer_, capacityFrames_,
                   channels_, tail_, devVars, intBuf, floatBuf, nSamples, totalFrames,
                   cbVars, delivered>>

\* the device asks for a short buffer or a long one
TestRequests == {3, MaxTestRequest}

TestCallbackBegin == \E n \in TestRequests : CallbackInvoked(n)

ClampVolumeAbove(volume) == IF volume > FloatOne THEN FloatOne ELSE volume
\* if (volume < 0.0f) volume = 0.0f; if (volume > 1.0f) volume = 1.0f;
ClampVolume(volume) ==
    IF volume < 0 THEN 0
    ELSE IF volume > FloatOne THEN FloatOne
    ELSE volume

\* AudioOutput::getVolume
GetVolume == volume_

\* AudioOutput::setVolume(v), from the test thread between its write calls
TestSetVolume ==
    /\ prodPc = "none"
    /\ \E v \in VolumeArgs :
          /\ volume_' = ClampVolume(v)
          /\ lastCall' = [op |-> "setVolume", arg |-> v, ret |-> 0]
    /\ UNCHANGED <<playerVars, ctlPc, ctlOp, decVars, ringVars, stream_, dummyMode_,
                   prodVars, writeVars, cbVars, histVars>>

RingTestNext ==
    \/ TestWriteBegin(MaxTestWrite)
    \/ ProducerWriteCopy
    \/ TestWritePublish
    \/ TestCallbackBegin
    \/ CallbackCopy
    \/ CallbackPublish

\* write and the callback on a ring of 8 frames at volume 1.0
RingSpec == TestInit(RingFormat, PatternData) /\ [][RingTestNext]_vars

VolumeTestNext ==
    \/ TestWriteBegin(MaxBatch)
    \/ ProducerWriteCopy
    \/ TestWritePublish
    \/ TestSetVolume
    \/ CallbackBegin
    \/ CallbackCopy
    \/ CallbackPublish

\* setVolume, write and the callback on full-scale samples
VolumeSpec == TestInit(VolumeFormat, FullScaleData) /\ [][VolumeTestNext]_vars

\* AudioOutput::size, AudioOutput::available and AudioOutput::getVolume, from
\* the test thread between its write calls
TestSize ==
    /\ prodPc = "none"
    /\ lastCall' = [op |-> "size", arg |-> 0, ret |-> Size]
    /\ UNCHANGED <<playerVars, ctlPc, ctlOp, decVars, ringVars, devVars, prodVars,
                   writeVars, cbVars, histVars>>

TestAvailable ==
    /\ prodPc = "none"
    /\ lastCall' = [op |-> "available", arg |-> 0, ret |-> Available]
    /\ UNCHANGED <<playerVars, ctlPc, ctlOp, decVars, ringVars, devVars, prodVars,
                   writeVars, cbVars, histVars>>

TestGetVolume ==
    /\ prodPc = "none"
    /\ lastCall' = [op |-> "getVolume", arg |-> 0, ret |-> GetVolume]
    /\ UNCHANGED <<playerVars, ctlPc, ctlOp, decVars, ringVars, devVars, prodVars,
                   writeVars, cbVars, histVars>>

InterfaceTestNext ==
    \/ TestWriteBegin(MaxBatch)
    \/ ProducerWriteCopy
    \/ TestWritePublish
    \/ TestSize
    \/ TestAvailable
    \/ TestSetVolume
    \/ TestGetVolume
    \/ CallbackBegin
    \/ CallbackCopy
    \/ CallbackPublish

\* every method of an initialised AudioOutput, and the callback
InterfaceSpec == TestInit(VolumeFormat, FullScaleData) /\ [][InterfaceTestNext]_vars

\* ------------------------------------- AudioOutput: capacity of the ring
\* A test thread calls the static nextPowerOfTwo and, once, init on an
\* AudioOutput it has constructed.  lastCall is [op, arg, ret] here.

\* the state after AudioOutput out; FFmpegDecoder dec; with the test thread
\* holding the vector out_buffer
TestConstructed(out_buffer) ==
    /\ decoder_ = FALSE
    /\ audioOut_ = FALSE
    /\ playing_ = FALSE
    /\ stopRequested_ = FALSE
    /\ decoderThread_ = "none"
    /\ ctlPc = "idle"
    /\ ctlOp = "none"
    /\ lastCall = [op |-> "new", arg |-> 0, ret |-> 0]
    /\ decOpen = FALSE
    /\ eof_ = FALSE
    /\ decPos = 0
    /\ out_sample_rate_ = 0
    /\ out_channels_ = 0
    /\ capacityFrames_ = 0
    /\ channels_ = 0
    /\ buffer_ = <<>>
    /\ head_ = 0
    /\ tail_ = 0
    /\ stream_ = "null"
    /\ dummyMode_ = FALSE
    /\ volume_ = FloatOne
    /\ prodPc = "none"
    /\ intBuf = out_buffer
    /\ floatBuf = <<>>
    /\ nSamples = 0
    /\ totalFrames = 0
    /\ writtenFrames = 0
    /\ wFrames = 0
    /\ wCount = 0
    /\ wHead = 0
    /\ wTail = 0
    /\ toWrite = 0
    /\ cbPc = "idle"
    /\ cbFrames = 0
    /\ cTail = 0
    /\ cHead = 0
    /\ framesToRead = 0
    /\ outBuf = <<>>
    /\ accepted = <<>>
    /\ delivered = <<>>

\* arguments of nextPowerOfTwo: the small values of size_t, and the values
\* around the largest power of two a size_t holds up to the largest size_t
PowerArgs ==
    (0..MaxPowerArg)
        \cup {SizeModulus \div 2 - 1, SizeModulus \div 2, SizeModulus \div 2 + 1,
              SizeModulus - 1}

\* nextPowerOfTwo(v)
TestNextPowerOfTwo ==
    /\ \E v \in PowerArgs :
          lastCall' = [op |-> "nextPowerOfTwo", arg |-> v, ret |-> nextPowerOfTwo(v)]
    /\ UNCHANGED <<playerVars, ctlPc, ctlOp, decVars, ringVars, devVars, prodVars,
                   writeVars, cbVars, histVars>>

\* out.init(sr, ch, 512), whatever PortAudio answers
TestInitCall ==
    /\ capacityFrames_ = 0
    /\ \E sr \in 0..MaxTestRate, ch \in 1..2,
          dev \in {"paerr", "nodev", "openerr", "ok"} :
          /\ AudioOutputInit(sr, ch, dev)
          /\ lastCall' = [op |-> "init", arg |-> sr,
                          ret |-> IF InitSucceeds(dev) THEN 1 ELSE 0]
    /\ UNCHANGED <<playerVars, ctlPc, ctlOp, decVars, prodVars, writeVars, cbVars>>

PowerOfTwoNext ==
    \/ TestNextPowerOfTwo
    \/ TestInitCall

PowerOfTwoSpec == TestConstructed(<<>>) /\ [][PowerOfTwoNext]_vars

\* ------------------------------- FFmpegDecoder driven through its interface
\* A test thread opens a file, calls decode again and again with the same
\* vector, and closes.  lastCall is [op, arg, ret]; for decode arg is the size
\* of out_buffer at the call.

\* what the vector handed to decode holds before the first call
PriorBuffers == {<<>>, <<0 - 7, 0 - 9>>}

\* FFmpegDecoder::open: cleanup(), then the contexts; failed is where it
\* fails: "input" (before the output format is set), "resampler" (after), "no"
TestOpen ==
    /\ \E failed \in {"input", "resampler", "no"}, fmt \in MediaFormats,
          out_buffer \in PriorBuffers :
          /\ decOpen' = (failed = "no")
          /\ eof_' = FALSE
          /\ decPos' = 0
          /\ out_sample_rate_' = IF failed = "input" THEN out_sample_rate_ ELSE fmt.sr
          /\ out_channels_' = IF failed = "input" THEN out_channels_ ELSE fmt.ch
          /\ intBuf' = out_buffer
          /\ lastCall' = [op |-> "open", arg |-> 0, ret |-> IF failed = "no" THEN 1 ELSE 0]
    /\ nSamples' = 0
    /\ UNCHANGED <<playerVars, ctlPc, ctlOp, ringVars, devVars, prodPc, floatBuf,
                   totalFrames, writtenFrames, writeVars, cbVars, histVars>>

\* nSamples = dec.decode(intBuf): 0 with no contexts or with eof_ set, else
\* the samples of got frames; atEnd: av_read_frame reports the end of the file
TestDecode ==
    /\ \E got \in 0..MaxBatch, atEnd \in BOOLEAN :
          /\ got > 0 => /\ decOpen /\ ~eof_
                        /\ decPos + got * out_channels_ <= MaxStream * out_channels_
                        /\ ~atEnd
          /\ atEnd => decOpen
          /\ intBuf' = DecodeInto(intBuf, DecodedSamples(decPos, got, out_channels_))
          /\ nSamples' = got * out_channels_
          /\ decPos' = decPos + got * out_channels_
          /\ eof_' = (eof_ \/ atEnd)
          /\ lastCall' = [op |-> "decode", arg |-> Len(intBuf),
                          ret |-> got * out_channels_]
    /\ UNCHANGED <<playerVars, ctlPc, ctlOp, decOpen, out_sample_rate_, out_channels_,
                   ringVars, devVars, prodPc, floatBuf, totalFrames, writtenFrames,
                   writeVars, cbVars, histVars>>

\* FFmpegDecoder::close
TestClose ==
    /\ DecoderClosed
    /\ lastCall' = [op |-> "close", arg |-> 0, ret |-> 0]
    /\ UNCHANGED <<playerVars, ctlPc, ctlOp, out_sample_rate_, out_channels_,
                   ringVars, devVars, prodVars, writeVars, cbVars, histVars>>

DecoderTestNext ==
    \/ TestOpen
    \/ TestDecode
    \/ TestClose

DecoderSpec ==
    (\E out_buffer \in PriorBuffers : TestConstructed(out_buffer))
        /\ [][DecoderTestNext]_vars

\* ---------------------------------------------------------- specification
Controller ==
    \/ Load
    \/ LoadBody
    \/ Play
    \/ Stop
    \/ StopJoin
    \/ StopDrainTest
    \/ StopDrainSleep
    \/ StopHaltRequest
    \/ StopHalt

Producer ==
    \/ ProducerDecode
    \/ ProducerInnerTest
    \/ ProducerWriteBegin
    \/ ProducerWriteCopy
    \/ ProducerWritePublish
    \/ ProducerSleep

Callback ==
    \/ CallbackBegin
    \/ CallbackCopy
    \/ CallbackPublish

Next == Controller \/ Producer \/ Callback

Spec == Init /\ [][Next]_vars

\* a call the controller thread is inside keeps running
ControllerInCall ==
    StopJoin \/ StopDrainTest \/ StopDrainSleep \/ StopHaltRequest \/ StopHalt \/ LoadBody

\* a callback invocation that has begun runs to its return
CallbackReturns == CallbackCopy \/ CallbackPublish

\* the producer and controller threads are scheduled and a running callback
\* returns, but the device may stall: it need not invoke the callback again
StalledDeviceSpec ==
    Spec /\ WF_vars(ControllerInCall) /\ WF_vars(Producer) /\ WF_vars(CallbackReturns)

\* the device, too, keeps invoking the callback while the stream is started
FairSpec == StalledDeviceSpec /\ WF_vars(CallbackBegin)

\* ------------------------------------------- a session left to play out
\* The session right after load() and play() have succeeded, for either file
\* format, with an output device or in null-device mode; the controller makes
\* no further call.
PlayingInit ==
    \E fmt \in MediaFormats, dev \in {"nodev", "ok"} :
        /\ decoder_ = TRUE
        /\ audioOut_ = TRUE
        /\ playing_ = TRUE
        /\ stopRequested_ = FALSE
        /\ decoderThread_ = "joinable"
        /\ ctlPc = "idle"
        /\ ctlOp = "none"
        /\ lastCall = [op |-> "play", ret |-> TRUE, from |-> "Loaded"]
        /\ decOpen = TRUE
        /\ eof_ = FALSE
        /\ decPos = 0
        /\ out_sample_rate_ = fmt.sr
        /\ out_channels_ = fmt.ch
        /\ capacityFrames_ = nextPowerOfTwo(fmt.sr * BufferSeconds)
        /\ channels_ = fmt.ch
        /\ buffer_ = Zeros(nextPowerOfTwo(fmt.sr * BufferSeconds) * fmt.ch)
        /\ head_ = 0
        /\ tail_ = 0
        /\ stream_ = (IF dev = "ok" THEN "started" ELSE "null")
        /\ dummyMode_ = (dev = "nodev")
        /\ volume_ = FloatOne
        /\ prodPc = "loop"
        /\ intBuf = <<>>
        /\ floatBuf = <<>>
        /\ nSamples = 0
        /\ totalFrames = 0
        /\ writtenFrames = 0
        /\ wFrames = 0
        /\ wCount = 0
        /\ wHead = 0
        /\ wTail = 0
        /\ toWrite = 0
        /\ cbPc = "idle"
        /\ cbFrames = 0
        /\ cTail = 0
        /\ cHead = 0
        /\ framesToRead = 0
        /\ outBuf = <<>>
        /\ accepted = <<>>
        /\ delivered = <<>>

PlayOutNext == Producer \/ Callback

\* the producer thread is scheduled, and the device keeps invoking the
\* callback and every invocation returns
PlayOutSpec ==
    /\ PlayingInit
    /\ [][PlayOutNext]_vars
    /\ WF_vars(Producer)
    /\ WF_vars(CallbackReturns)
    /\ WF_vars(CallbackBegin)

\* ------------------------------------- the conversion of a decoded batch
\* The playing session with the decoder stubbed: it yields one batch of
\* arbitrary signed 16-bit samples, of any length, and then nothing.  The
\* producer converts and writes it while the callback runs and the controller
\* may call stop().
Int16Min == 0 - Int16Scale
Int16Max == Int16Scale - 1
Int16Samples == {Int16Min, 1, Int16Max}

RECURSIVE Batches(_)
Batches(n) ==
    IF n = 0 THEN {<<>>}
    ELSE {Append(b, s) : b \in Batches(n - 1), s \in Int16Samples}

Int16Batches == UNION {Batches(n) : n \in 1..MaxTestBatch}

\* decodeThreadFunc from its loop test to the batch loop, on the stub
TestDecodeBatch ==
    /\ prodPc = "loop"
    /\ IF stopRequested_ \/ intBuf # <<>>
       THEN /\ prodPc' = "done"
            /\ ProducerLocalsGone
       ELSE \E samples \in Int16Batches :
            LET n == Len(samples)
                buf == DecodeInto(intBuf, samples)
            IN  /\ intBuf' = buf
                /\ nSamples' = n
                /\ floatBuf' = ConvertBatch(buf, n)
                /\ totalFrames' = TotalFrames(n, out_channels_)
                /\ writtenFrames' = 0
                /\ prodPc' = "inner"
                /\ UNCHANGED <<wFrames, wCount>>
    /\ UNCHANGED <<playerVars, ctlVars, decVars, ringVars, devVars, wHead, wTail,
                   toWrite, cbVars, histVars>>

ConvertTestNext ==
    \/ TestDecodeBatch
    \/ ProducerInnerTest
    \/ ProducerWriteBegin
    \/ ProducerWriteCopy
    \/ ProducerWritePublish
    \/ ProducerSleep
    \/ Callback
    \/ Stop
    \/ StopJoin
    \/ StopDrainTest
    \/ StopDrainSleep
    \/ StopHaltRequest
    \/ StopHalt

ConvertSpec == PlayingInit /\ [][ConvertTestNext]_vars

\* ------------------------------------------------------------------ claims
IsPrefix(p, q) == Len(p) <= Len(q) /\ SubSeq(q, 1, Len(p)) = p

\* a write call / a callback invocation has been entered and has not returned
WriteInFlight == prodPc \in {"write", "wcopy", "wpublish"}
CallbackInFlight == cbPc # "idle"

\* a write call has loaded the indexes and computed toWrite
WriteLoaded == prodPc \in {"wcopy", "wpublish"}

\* the producer is inside the retry loop of one batch
InBatch == prodPc \in {"inner", "write", "wcopy", "wpublish", "sleep"}

\* the slots (1-based indexes into buffer_) of the frames not yet consumed
OccupiedSlots ==
    {SlotIndex(tail_, f, c) : f \in 0..(Size - 1), c \in 0..(channels_ - 1)}

\* Player::stop is past its playing_ test and has not returned
StopInProgress == ctlPc \in {"join", "drain", "drainSleep", "halt"}

\* C1: FIFO delivery.  At volume 1.0 the samples the callback has copied out of
\* the ring are, in order, a prefix of the samples of the frames write has
\* accepted: nothing lost, duplicated or reordered, under every interleaving
\* of the steps of write and of the callback.
C1_FifoDelivery ==
    (audioOut_ /\ volume_ = FloatOne) => IsPrefix(delivered, accepted)

\* the callback has delivered frames of a second lap of the ring and runs
\* again while a write is in flight
C1_Witness ==
    /\ Len(delivered) > capacityFrames_ * channels_
    /\ WriteInFlight
    /\ CallbackInFlight

\* what a write in flight has computed from the indexes it loaded
C2_WriteCount ==
    WriteLoaded =>
        /\ toWrite = Min(wCount, (wTail - wHead - 1) % capacityFrames_)
        /\ wHead = head_
        /\ toWrite <= capacityFrames_ - 1 - Size

\* frames accepted and not yet copied out
C2_Occupancy ==
    audioOut_ => Len(accepted) - Len(delivered) <= (capacityFrames_ - 1) * channels_

\* the copy loop of write
C2_CopyStep ==
    ProducerWriteCopy =>
        /\ \A k \in OccupiedSlots : buffer_'[k] = buffer_[k]
        /\ toWrite = 0 => buffer_' = buffer_
        /\ \A i \in 1..(toWrite * channels_) :
              buffer_'[SlotIndex(head_, (i - 1) \div channels_, (i - 1) % channels_)]
                  = floatBuf[wFrames + i]

\* the head store and the return of write
C2_PublishStep ==
    ProducerWritePublish =>
        /\ head_' = (head_ + toWrite) % capacityFrames_
        /\ writtenFrames' = writtenFrames + toWrite
        /\ Len(accepted') = Len(accepted) + toWrite * channels_
        /\ buffer_' = buffer_

\* C2: no overrun.  A write of n frames takes min(n, free) frames with
\* free = (tail - head - 1) mod C for the indexes it loaded, stores them only
\* into slots that hold no unconsumed frame, advances head by exactly that
\* number and returns it; with no free slot it returns 0 and changes neither
\* head nor the buffer.  The frames accepted and not yet consumed never
\* exceed C - 1.
C2_NoOverrun ==
    /\ [](C2_WriteCount /\ C2_Occupancy)
    /\ [][C2_CopyStep /\ C2_PublishStep]_vars

\* a write that asked for more than was free has stored a partial batch up to
\* the last slot of the ring
C2_Witness ==
    /\ prodPc = "wpublish"
    /\ toWrite > 0
    /\ toWrite < wCount
    /\ wHead + toWrite >= capacityFrames_

\* a write finds the ring full
C2_WitnessFull ==
    /\ prodPc = "wpublish"
    /\ toWrite = 0
    /\ Size = capacityFrames_ - 1

\* no write and no callback in flight on an initialised AudioOutput
Quiescent == audioOut_ /\ ~WriteInFlight /\ ~CallbackInFlight

\* C3: capacity invariant.  With no write and no callback in flight,
\* size() + available() = capacityFrames_ - 1.
C3_CapacityInvariant ==
    Quiescent => Size + Available = capacityFrames_ - 1

\* quiescent, after writes and callbacks, partly filled with head wrapped
C3_Witness ==
    /\ Quiescent
    /\ Size > 0
    /\ Available > 0
    /\ head_ < tail_
    /\ Len(delivered) > 0

\* C4: the callback's output is fully populated.  When the copy loop and the
\* silence fill are done, every one of the N * channels output samples is
\* assigned: the first min(N, occupied) frames are the next frames of the
\* ring (as accepted by write, scaled by the volume), all others are zero.
C4_OutputPopulated ==
    cbPc = "publish" =>
        LET k == Min(cbFrames, (cHead - cTail) % capacityFrames_)
            base == Len(delivered) - k * channels_
        IN  /\ Len(outBuf) = cbFrames * channels_
            /\ framesToRead = k
            /\ \A i \in 1..Len(outBuf) :
                  /\ outBuf[i] # Unfilled
                  /\ i > k * channels_ => outBuf[i] = 0
                  /\ i <= k * channels_ =>
                        /\ base >= 0
                        /\ base + i <= Len(accepted)
                        /\ outBuf[i] = ScaleClamp(accepted[base + i], volume_)

\* an underrun: some frames from the ring, the rest silence
C4_Witness ==
    /\ cbPc = "publish"
    /\ framesToRead > 0
    /\ framesToRead < cbFrames
    /\ outBuf[1] # 0

\* an invocation that finds the ring empty
C4_WitnessEmpty ==
    /\ cbPc = "publish"
    /\ framesToRead = 0
    /\ Len(accepted) > 0

\* the two steps of audioOut_->stop() in a stop() that began while Playing
C5_HaltStep ==
    /\ StopHaltRequest =>
          /\ Size = 0
          /\ delivered = accepted
    /\ (StopHalt /\ playing_ /\ ~dummyMode_) =>
          /\ Size = 0
          /\ delivered = accepted
          /\ stream_ = "stopping"
          /\ stream_' = "null"

\* C5: drain on stop.  stop() called while Playing halts the device only when
\* size() is 0 and every accepted frame has been copied out by the callback,
\* and, the callback being invoked again and again, stop() returns.
C5_DrainOnStop ==
    /\ [][C5_HaltStep]_vars
    /\ (StopInProgress ~> ~StopInProgress)

\* stop() is waiting in the drain loop for frames the callback has yet to take
C5_Witness ==
    /\ ctlPc = "drainSleep"
    /\ ctlOp = "stop"
    /\ Size > 1
    /\ Len(delivered) > 0

\* C6: stop() called while Playing terminates even when the device has
\* stalled (the callback is not invoked again): the drain wait gives up.
C6_StopTerminates == (ctlPc = "drainSleep") ~> (ctlPc = "idle")

\* the samples the last decode call appended to intBuf
LastDecoded == SubSeq(intBuf, Len(intBuf) - nSamples + 1, Len(intBuf))

\* C7: each batch written is the batch just pulled.  Inside the retry loop the
\* samples handed to write are the conversion of the samples the last decode
\* call appended, so the samples the ring has accepted are the conversion of
\* the file's samples from its beginning, none repeated.
C7_BatchIsBatchPulled ==
    /\ InBatch => floatBuf = NormalizeSeq(LastDecoded)
    /\ audioOut_ =>
          accepted = NormalizeSeq([i \in 1..Len(accepted) |-> StreamSample(i)])

\* where the producer is with the batch it holds
C8_Remainder ==
    /\ (prodPc = "loop" /\ ~stopRequested_) => writtenFrames = totalFrames
    /\ InBatch =>
          /\ writtenFrames <= totalFrames
          /\ Len(floatBuf) = totalFrames * out_channels_
    /\ WriteInFlight =>
          /\ wCount = totalFrames - writtenFrames
          /\ wCount > 0
          /\ SubSeq(floatBuf, wFrames + 1, Len(floatBuf))
                = SubSeq(floatBuf, writtenFrames * channels_ + 1,
                         totalFrames * channels_)
    /\ (InBatch /\ ~dummyMode_) =>
          /\ Len(accepted) >= writtenFrames * channels_
          /\ SubSeq(accepted, Len(accepted) - writtenFrames * channels_ + 1,
                    Len(accepted))
                = SubSeq(floatBuf, 1, writtenFrames * channels_)
    /\ prodPc = "sleep" => writtenFrames < totalFrames

\* the producer's steps around a write
C8_Steps ==
    /\ (ProducerDecode /\ ~stopRequested_) => writtenFrames = totalFrames
    /\ (ProducerWritePublish /\ toWrite = 0) => (prodPc' = "sleep" /\ UNCHANGED writtenFrames)
    /\ (ProducerWritePublish /\ toWrite > 0) => prodPc' = "inner"
    /\ ProducerSleep => (prodPc' = "inner" /\ UNCHANGED <<writtenFrames, floatBuf>>)

\* C8: never drop frames.  While the stop flag is clear the producer is at
\* the decode call only with the whole current batch written; every write
\* call gets exactly the unwritten remainder of the batch; the frames accepted
\* since the batch was pulled are its first writtenFrames frames; and a write
\* that returns 0 is followed by the sleep.
C8_NeverDropFrames == []C8_Remainder /\ [][C8_Steps]_vars

\* the retry of a two-channel batch after a partial write
C8_Witness ==
    /\ prodPc = "wcopy"
    /\ channels_ = 2
    /\ writtenFrames > 0
    /\ toWrite > 0
    /\ toWrite = wCount

\* the producer sleeps with a remainder in hand
C8_WitnessSleep ==
    /\ prodPc = "sleep"
    /\ writtenFrames > 0

\* C9 as stated: play() called while the session is Playing returns failure.
C9_PlayWhilePlayingFails ==
    (ctlPc = "idle" /\ lastCall.op = "play" /\ lastCall.from = "Playing")
        => lastCall.ret = FALSE

\* a play() call made while playing_ is set
C9_PlayWhilePlayingStep ==
    (Play /\ playing_) =>
        /\ lastCall' = [op |-> "play", ret |-> TRUE, from |-> "Playing"]
        /\ UNCHANGED <<playerVars, decVars, ringVars, devVars, prodVars, writeVars,
                       cbVars, histVars>>

\* C9 as amended: play() called while the session is Playing returns true and
\* changes nothing: no second producer thread, and the running producer, the
\* device and the playing flag are as they were.
C9_PlayWhilePlaying == [][C9_PlayWhilePlayingStep]_vars

\* play() has returned from the already-playing branch with the producer
\* inside a write
C9_Witness ==
    /\ lastCall = [op |-> "play", ret |-> TRUE, from |-> "Playing"]
    /\ ctlPc = "idle"
    /\ WriteInFlight

\* the last call left no source loaded
NoSourceLoaded ==
    \/ lastCall.op \in {"none", "stop"}
    \/ (lastCall.op = "load" /\ ~lastCall.ret)
    \/ (lastCall.op = "play" /\ lastCall.from = "Idle")

\* the session after construction, stop(), a failed load() or a play() in Idle
C10_Idle ==
    (ctlPc = "idle" /\ NoSourceLoaded) =>
        /\ SessionState = "Idle"
        /\ ~playing_
        /\ prodPc = "none"
        /\ decoderThread_ = "none"
        /\ stream_ # "started"
        /\ lastCall.op = "play" => ~lastCall.ret

\* a play() call made with no source loaded
C10_PlayStep ==
    (Play /\ SessionState = "Idle") =>
        /\ lastCall' = [op |-> "play", ret |-> FALSE, from |-> "Idle"]
        /\ UNCHANGED <<playerVars, decVars, ringVars, devVars, prodVars, writeVars,
                       cbVars, histVars>>

\* C10: play() is valid only from Loaded.  With no source loaded (after
\* construction, after stop(), after a failed load()) play() returns false,
\* starts no device, spawns no producer and isPlaying() stays false.
C10_PlayOnlyFromLoaded == []C10_Idle /\ [][C10_PlayStep]_vars

\* play() has failed after a stop() that left a null-device AudioOutput behind
C10_Witness ==
    /\ lastCall = [op |-> "play", ret |-> FALSE, from |-> "Idle"]
    /\ ctlPc = "idle"
    /\ audioOut_
    /\ dummyMode_

\* the session as a caller finds it after a stop() that has returned
C11_AfterStop ==
    (ctlPc = "idle" /\ lastCall.op = "stop") =>
        /\ lastCall.ret
        /\ ~playing_
        /\ ~stopRequested_
        /\ decoderThread_ = "none"
        /\ prodPc = "none"
        /\ ~decoder_
        /\ ~decOpen
        /\ stream_ = "null"
        /\ cbPc = "idle"
        /\ NoFileLoaded

\* a stop() call: it is accepted in every session state, and one made right
\* after a stop() returns at once and leaves the observable facts alone
C11_StopStep ==
    /\ (Stop /\ ~playing_) => (ctlPc' = "idle" /\ lastCall'.op = "stop" /\ ~audioOut_')
    /\ (Stop /\ playing_) => (ctlPc' = "join" /\ stopRequested_')
    /\ (Stop /\ lastCall.op = "stop") =>
          /\ ctlPc' = "idle"
          /\ UNCHANGED <<playing_, stopRequested_, decoderThread_, prodPc, decoder_,
                         decOpen, stream_, cbPc>>

\* C11: stop() is idempotent.  After a stop() that returned, from any state,
\* the session is Idle: not playing, no producer thread, decoder closed,
\* device halted, play() has nothing to play; a second stop() returns at once
\* and changes none of these.
C11_StopIdempotent == []C11_AfterStop /\ [][C11_StopStep]_vars

\* stop() has returned from Playing after the ring drained
C11_Witness ==
    /\ ctlPc = "idle"
    /\ lastCall = [op |-> "stop", ret |-> TRUE, from |-> "Playing"]
    /\ audioOut_
    /\ Len(accepted) > 0
    /\ delivered = accepted

\* a stop() made with nothing left but the halted AudioOutput of the last one
C11_WitnessSecond ==
    /\ ctlPc = "idle"
    /\ lastCall = [op |-> "stop", ret |-> TRUE, from |-> "Idle"]
    /\ ~audioOut_
    /\ ~decoder_

\* the session after a load() that has returned
C12_AfterLoad ==
    (ctlPc = "idle" /\ lastCall.op = "load") =>
        IF lastCall.ret
        THEN /\ decoder_ /\ decOpen /\ audioOut_
             /\ dummyMode_ \/ stream_ = "open"
             /\ ~playing_
        ELSE /\ ~playing_
             /\ ~stopRequested_
             /\ decoderThread_ = "none"
             /\ prodPc = "none"
             /\ ~decoder_
             /\ ~decOpen
             /\ stream_ = "null"
             /\ NoFileLoaded

\* the return of load(), and a play() that follows a failed load()
C12_Steps ==
    /\ LoadBody => (ctlPc' = "idle" /\ lastCall'.op = "load" /\ lastCall'.ret = decoder_')
    /\ (Play /\ lastCall.op = "load" /\ ~lastCall.ret) =>
          /\ ~lastCall'.ret
          /\ UNCHANGED <<playerVars, prodPc, stream_>>

\* C12: a failed load() leaves the session Idle.  load() returns true only
\* with the decoder open and the device configured; when it returns false,
\* whatever the state it was called in, nothing is playing, no producer thread
\* exists, no decoder is held, and play() returns false.
C12_FailedLoadIsIdle == []C12_AfterLoad /\ [][C12_Steps]_vars

\* the decoder failed to open in a load() made while Playing: the halted
\* AudioOutput of the previous session is still held
C12_Witness ==
    /\ ctlPc = "idle"
    /\ lastCall = [op |-> "load", ret |-> FALSE, from |-> "Playing"]
    /\ audioOut_

\* AudioOutput::init failed in a load() made while Playing
C12_WitnessInit ==
    /\ ctlPc = "idle"
    /\ lastCall = [op |-> "load", ret |-> FALSE, from |-> "Playing"]
    /\ ~audioOut_

\* load() is about to open the new decoder
C13_BeforeOpen ==
    ctlPc = "loadBody" =>
        /\ ~playing_
        /\ ~stopRequested_
        /\ decoderThread_ = "none"
        /\ prodPc = "none"
        /\ ~decoder_
        /\ ~decOpen
        /\ stream_ = "null"
        /\ cbPc = "idle"

\* a producer thread exists only while the session is playing, and it is the
\* one decoderThread_ holds
C13_OneProducer ==
    /\ (prodPc # "none") <=> (decoderThread_ = "joinable")
    /\ ~playing_ => prodPc = "none"
    /\ (decoder_ <=> decOpen)

\* play() spawns a thread only when none exists
C13_SpawnStep ==
    (Play /\ prodPc' # prodPc) => (prodPc = "none" /\ decoderThread_ = "none")

\* C13: load() while a session is active is stop-then-load.  When load()
\* opens the new decoder the previous producer thread has been joined, the
\* previous device is halted with no callback running and the previous decoder
\* is closed and released; a producer thread is spawned only when none exists.
C13_StopThenLoad == [](C13_BeforeOpen /\ C13_OneProducer) /\ [][C13_SpawnStep]_vars

\* load() called while Playing is past its stop(): the halted AudioOutput of
\* the previous session still holds the frames it accepted
C13_Witness ==
    /\ ctlPc = "loadBody"
    /\ lastCall.from = "Playing"
    /\ audioOut_
    /\ Len(accepted) > 0

\* the producer's decode step, and every step taken once it has exited
C14_Steps ==
    /\ (ProducerDecode /\ ~stopRequested_ /\ decPos' = decPos) => prodPc' = "done"
    /\ (ProducerDecode /\ decPos' # decPos) => prodPc' = "inner"
    /\ prodPc = "done" =>
          /\ prodPc' \in {"done", "none"}
          /\ UNCHANGED <<decVars, head_, buffer_, accepted>>

\* C14: end-of-stream terminates the fill loop without retry.  A decode call
\* that returns 0 is the producer's last: the thread exits, and until it is
\* joined no step decodes or writes.
C14_EndOfStreamExits == [][C14_Steps]_vars

\* the producer has exited on an empty batch with frames still in the ring
C14_Witness ==
    /\ prodPc = "done"
    /\ ~stopRequested_
    /\ playing_
    /\ decPos > 0
    /\ Size > 0

\* the frames in the ring, oldest first
RingContents ==
    [i \in 1..(Size * channels_) |->
        buffer_[SlotIndex(tail_, (i - 1) \div channels_, (i - 1) % channels_)]]

\* the accepted samples the callback has not copied out
Undelivered == SubSeq(accepted, Len(delivered) + 1, Len(accepted))

\* the fill loop has exited and the session has not been stopped yet
ProducerExited == playing_ /\ prodPc \in {"done", "none"}

\* what the ring holds once the producer has exited
C15_Remain ==
    (ProducerExited /\ cbPc = "idle") => RingContents = Undelivered

\* the exit step and every step after it
C15_Steps ==
    (playing_ /\ prodPc' \in {"done", "none"}) => UNCHANGED <<head_, buffer_, accepted>>

\* C15: on exit the loop performs no further writes.  From the exit of the
\* fill loop (empty batch or stop flag) on, head and the buffer are unchanged,
\* and between callbacks the ring holds exactly the accepted frames not yet
\* delivered.
C15_NoWriteAfterExit == []C15_Remain /\ [][C15_Steps]_vars

\* the callback takes frames out of the ring after the producer exited on the
\* stop flag
C15_Witness ==
    /\ prodPc = "done"
    /\ stopRequested_
    /\ cbPc = "publish"
    /\ framesToRead > 0
    /\ Size > framesToRead

\* the AudioOutput in null-device mode
C20_NullRing ==
    dummyMode_ =>
        /\ InitSucceeds("nodev")
        /\ audioOut_
        /\ stream_ = "null"
        /\ cbPc = "idle"
        /\ head_ = 0
        /\ tail_ = 0
        /\ Size = 0
        /\ buffer_ = Zeros(capacityFrames_ * channels_)
        /\ accepted = <<>>
        /\ prodPc # "sleep"
        /\ ctlPc # "drainSleep"

\* a load() that succeeds with no stream opened is in null-device mode;
\* start, write and the drain test in that mode
C20_Steps ==
    /\ (LoadBody /\ lastCall'.ret /\ stream_' = "null") => dummyMode_'
    /\ (Play /\ dummyMode_ /\ decoder_ /\ ~playing_) =>
          (lastCall'.ret /\ playing_' /\ prodPc' = "loop")
    /\ (ProducerWriteBegin /\ dummyMode_) =>
          /\ writtenFrames' = writtenFrames + wCount
          /\ writtenFrames' = totalFrames
          /\ prodPc' = "inner"
          /\ UNCHANGED ringVars
    /\ (StopDrainTest /\ dummyMode_) => ctlPc' = "halt"

\* C20: null-device mode.  With no output device init succeeds in dummy
\* mode; start returns true; every write returns its frame count and leaves
\* head, tail and the buffer alone, so size() stays 0, every batch goes
\* through in one write and the producer never sleeps, and stop() never waits
\* in the drain loop: its first drain test sends it on to the halt, which
\* has no stream and no callback to wait for.
C20_NullDevice == []C20_NullRing /\ [][C20_Steps]_vars

\* the producer has exited on an empty batch after the whole file went
\* through write in null-device mode
C20_Witness ==
    /\ dummyMode_
    /\ prodPc = "done"
    /\ ~stopRequested_
    /\ decPos = MaxStream * out_channels_

\* the k-th frame of the test pattern as it is stored in the ring
PatternFrame(k) == Normalize(StreamSample(k))

\* the callback that asks for 3 frames of a ring holding frames 1..5, nothing
\* consumed before, has copied
C16_FirstCallback ==
    /\ cbPc = "publish"
    /\ cbFrames = 3
    /\ cTail = 0
    /\ cHead = 5
    /\ Len(delivered) = 3

\* the following callback, asking for 10 frames, has copied
C16_SecondCallback ==
    /\ cbPc = "publish"
    /\ cbFrames = 10
    /\ cTail = 3
    /\ cHead = 5
    /\ Len(delivered) = 5

C17_Steps ==
    /\ (TestWritePublish /\ wCount = 6 /\ wHead = 0 /\ wTail = 0) =>
          (lastCall'.ret = 6 /\ head_' = 6)
    /\ (TestWritePublish /\ wCount = 6 /\ wHead = 6 /\ wTail = 0) =>
          (lastCall'.ret = 1 /\ head_' = 7)

\* the ring after the second write
C17_Full ==
    (capacityFrames_ = 8 /\ head_ = 7 /\ tail_ = 0) =>
        (Size = 7 /\ Available = 0)

\* C17: one-slot reservation.  On an empty ring of capacity 8 a write of 6
\* frames returns 6; with nothing consumed a second write of 6 returns 1, and
\* the ring is then full: size() is 7 and available() is 0.
C17_OneSlotReserved == []C17_Full /\ [][C17_Steps]_vars

\* the second write has returned 1 and nothing has been consumed
C17_Witness ==
    /\ prodPc = "none"
    /\ capacityFrames_ = 8
    /\ lastCall = [op |-> "write", arg |-> 6, ret |-> 1]
    /\ head_ = 7
    /\ tail_ = 0
    /\ delivered = <<>>
    /\ Size = 7
    /\ Available = 0

\* the callback's copy loop: each output sample against the stored one
C18_CopyStep ==
    CallbackCopy =>
        \A i \in 1..(framesToRead * channels_) :
            LET s == buffer_[SlotIndex(cTail, (i - 1) \div channels_,
                                       (i - 1) % channels_)]
                o == outBuf'[i]
            IN  /\ o >= 0 - FloatOne
                /\ o <= FloatOne
                /\ s > 0 => o >= 0
                /\ s < 0 => o <= 0
                /\ (volume_ = FloatOne /\ s >= FloatOne) => o = FloatOne
                /\ (volume_ = FloatOne /\ s <= 0 - FloatOne) => o = 0 - FloatOne

\* setVolume with an argument of 1.0 or more stores 1.0
C18_SetStep ==
    (TestSetVolume /\ lastCall'.arg >= FloatOne) => volume_' = FloatOne

\* every sample of the device buffer the callback has assigned
C18_Output ==
    \A i \in 1..Len(outBuf) :
        outBuf[i] = Unfilled \/ (outBuf[i] >= 0 - FloatOne /\ outBuf[i] <= FloatOne)

\* C18: volume clamp.  After setVolume with any argument >= 1.0 a stored
\* sample of +1.0 or more comes out as exactly +1.0 and one of -1.0 or less
\* as exactly -1.0; whatever the volume, every output sample lies in
\* [-1.0, 1.0] and keeps the sign of the stored sample.
C18_VolumeClamp == []C18_Output /\ [][C18_CopyStep /\ C18_SetStep]_vars

\* after setVolume(2.0) the callback has output the two full-scale samples
C18_Witness ==
    /\ cbPc = "publish"
    /\ lastCall = [op |-> "setVolume", arg |-> 2 * FloatOne, ret |-> 0]
    /\ cTail = 0
    /\ framesToRead = 2
    /\ outBuf = <<FloatOne, 0 - FloatOne>>

\* a sample stored beyond full scale has come out as exactly 1.0
C18_WitnessBeyond ==
    /\ cbPc = "publish"
    /\ volume_ = FloatOne
    /\ cTail = 2
    /\ framesToRead > 0
    /\ buffer_[3] > FloatOne
    /\ outBuf[1] = FloatOne

C19_Range == 0 <= GetVolume /\ GetVolume <= FloatOne

\* setVolume stores its argument clamped; no other step changes the volume
C19_Steps ==
    /\ TestSetVolume =>
          GetVolume' = (IF lastCall'.arg < 0 THEN 0
                        ELSE IF lastCall'.arg > FloatOne THEN FloatOne
                        ELSE lastCall'.arg)
    /\ volume_' # volume_ => TestSetVolume

C21_AfterLoad ==
    (ctlPc = "idle" /\ lastCall.op = "load" /\ lastCall.ret) =>
        /\ audioOut_
        /\ head_ = 0
        /\ tail_ = 0
        /\ Size = 0
        /\ buffer_ = Zeros(capacityFrames_ * channels_)
        /\ accepted = <<>>
        /\ delivered = <<>>

\* what the callback has copied out of the AudioOutput held now was accepted
\* by that same object, and its slots hold nothing but what it accepted or
\* what the write in flight is storing
C21_OwnFrames ==
    audioOut_ =>
        /\ Len(delivered) <= Len(accepted)
        /\ \A i \in 1..Len(delivered) : delivered[i] = accepted[i]
        /\ \A k \in 1..Len(buffer_) :
              \/ buffer_[k] = 0
              \/ \E i \in 1..Len(accepted) : accepted[i] = buffer_[k]
              \/ /\ prodPc = "wpublish"
                 /\ \E i \in 1..(toWrite * channels_) : floatBuf[wFrames + i] = buffer_[k]

\* the step of load() that creates the AudioOutput: no thread of the earlier
\* session is left to use it
C21_LoadStep ==
    (LoadBody /\ lastCall'.ret) =>
        /\ prodPc = "none"
        /\ decoderThread_ = "none"
        /\ cbPc = "idle"
        /\ stream_ = "null"
        /\ head_' = 0
        /\ tail_' = 0
        /\ Len(buffer_') = capacityFrames_' * channels_'

\* C21: sessions never share ring buffers.  Every load() that succeeds leaves
\* a new AudioOutput with an empty ring (head = tail = 0, size() = 0, all
\* slots zero) that no thread of an earlier session uses, and everything the
\* callback delivers from it was written to it.
C21_FreshRing == [](C21_AfterLoad /\ C21_OwnFrames) /\ [][C21_LoadStep]_vars

\* load() has succeeded in a call made while the earlier session was Playing
C21_Witness ==
    /\ ctlPc = "idle"
    /\ lastCall = [op |-> "load", ret |-> TRUE, from |-> "Playing"]
    /\ audioOut_
    /\ ~dummyMode_
    /\ Size = 0

\* load() is about to replace an AudioOutput whose indexes have advanced
C21_WitnessBefore ==
    /\ ctlPc = "loadBody"
    /\ audioOut_
    /\ head_ # 0
    /\ head_ = tail_

\* the powers of two a size_t holds
PowersOfTwo == {2 ^ k : k \in 0..(SizeBits - 1)}

\* r is the smallest power of two that is at least v
SmallestPowerAtLeast(r, v) ==
    /\ r \in PowersOfTwo
    /\ r >= v
    /\ \A q \in PowersOfTwo : q >= v => r <= q

\* C22 as stated: nextPowerOfTwo(v) is the smallest power of two >= v for
\* every v >= 1.
C22_EveryArgument ==
    (lastCall.op = "nextPowerOfTwo" /\ lastCall.arg >= 1) =>
        SmallestPowerAtLeast(lastCall.ret, lastCall.arg)

\* what nextPowerOfTwo has returned
C22_Returned ==
    lastCall.op = "nextPowerOfTwo" =>
        /\ lastCall.arg = 0 => lastCall.ret = 1
        /\ (1 <= lastCall.arg /\ lastCall.arg <= SizeModulus \div 2) =>
              SmallestPowerAtLeast(lastCall.ret, lastCall.arg)
        /\ lastCall.arg > SizeModulus \div 2 => lastCall.ret = 0

\* the ring of an AudioOutput that init has been called on: reducing an index
\* (a sum of two indexes, or a wrapped difference) by the mask is reducing
\* it modulo the capacity
C22_Mask ==
    capacityFrames_ > 0 =>
        /\ capacityFrames_ \in PowersOfTwo
        /\ Len(buffer_) = capacityFrames_ * channels_
        /\ \A i \in (0..(2 * capacityFrames_))
                       \cup ((SizeModulus - capacityFrames_ - 1)..(SizeModulus - 1)) :
              BitAnd(i, capacityFrames_ - 1) = i % capacityFrames_

\* the capacity init chooses
C22_InitStep ==
    TestInitCall =>
        /\ capacityFrames_' = nextPowerOfTwo(BufferSeconds * lastCall'.arg)
        /\ lastCall'.arg = 0 => capacityFrames_' = 1
        /\ lastCall'.arg >= 1 =>
              SmallestPowerAtLeast(capacityFrames_', BufferSeconds * lastCall'.arg)

\* C22 as amended: nextPowerOfTwo(v) returns the smallest power of two >= v
\* for every v from 1 to the largest power of two a size_t holds (and 1 for
\* v = 0); for a larger v it returns 0.  init(sampleRate, ...) sets
\* capacityFrames_ = nextPowerOfTwo(2 * sampleRate), so reduction by the mask
\* capacityFrames_ - 1 equals reduction modulo capacityFrames_.
C22_PowerOfTwoCapacity == [](C22_Returned /\ C22_Mask) /\ [][C22_InitStep]_vars

\* after init(3, ...) made a ring of 8 frames, nextPowerOfTwo(5) has returned 8
C22_Witness ==
    /\ lastCall = [op |-> "nextPowerOfTwo", arg |-> 5, ret |-> 8]
    /\ capacityFrames_ = 8
    /\ Len(buffer_) = 16

\* nextPowerOfTwo has been called with the largest power of two
C22_WitnessLargest ==
    /\ lastCall.op = "nextPowerOfTwo"
    /\ lastCall.arg = SizeModulus \div 2
    /\ lastCall.ret = lastCall.arg

\* one decode call against the vector it was handed
C23_DecodeStep ==
    TestDecode =>
        /\ lastCall'.ret >= 0
        /\ lastCall'.ret = nSamples'
        /\ Len(intBuf') = Len(intBuf) + lastCall'.ret
        /\ \A i \in 1..Len(intBuf) : intBuf'[i] = intBuf[i]
        /\ \A i \in 1..lastCall'.ret : intBuf'[Len(intBuf) + i] = StreamSample(decPos + i)
        /\ (eof_ \/ ~decOpen) => (lastCall'.ret = 0 /\ intBuf' = intBuf)

\* C23: decode appends.  A decode call leaves the samples already in
\* out_buffer unchanged and in place, grows out_buffer by exactly the number
\* it returns, the samples added being the next ones of the file, and at
\* end-of-stream it returns 0 and appends nothing.
C23_DecodeAppends == [][C23_DecodeStep]_vars

\* decode has appended to a vector that held samples of earlier calls and of
\* the caller
C23_Witness ==
    /\ lastCall.op = "decode"
    /\ lastCall.arg > 2
    /\ lastCall.ret = 2
    /\ intBuf[1] = 0 - 7
    /\ Len(intBuf) = lastCall.arg + 2

\* decode has returned 0 at end-of-stream
C23_WitnessEnd ==
    /\ lastCall.op = "decode"
    /\ lastCall.ret = 0
    /\ eof_
    /\ lastCall.arg > 2
    /\ Len(intBuf) = lastCall.arg

\* the frames in the ring and the frames it has room for, from the indexes as
\* they are now
TrueOccupied == (head_ - tail_) % capacityFrames_
TrueFree == capacityFrames_ - 1 - TrueOccupied

\* the frame slots a write in flight stores into and those a callback in
\* flight reads
WriteSlots == {(wHead + f) % capacityFrames_ : f \in 0..(toWrite - 1)}
ReadSlots == {(cTail + f) % capacityFrames_ : f \in 0..(framesToRead - 1)}

\* the free count of a write in flight, from the indexes it loaded
C24_FreeSnapshot ==
    WriteLoaded =>
        /\ FreeFrames(wHead, wTail, capacityFrames_) <= TrueFree
        /\ toWrite <= FreeFrames(wHead, wTail, capacityFrames_)
        /\ \A f \in WriteSlots :
              \A u \in 0..(TrueOccupied - 1) : f # (tail_ + u) % capacityFrames_

\* the occupied count of a callback in flight, from the indexes it loaded
C24_UsedSnapshot ==
    CallbackInFlight =>
        /\ UsedFrames(cHead, cTail, capacityFrames_) <= TrueOccupied
        /\ framesToRead <= UsedFrames(cHead, cTail, capacityFrames_)
        /\ cTail = tail_

\* a write and a callback both in flight
C24_Disjoint ==
    (WriteLoaded /\ CallbackInFlight) => WriteSlots \cap ReadSlots = {}

\* C24: index snapshots are safe under interleaving.  From its index loads
\* to its index store, the free count a write computed never exceeds the
\* free count of the ring as it is, and the occupied count a callback
\* computed never exceeds the occupied count as it is; the slots a write
\* stores into hold no unconsumed frame and none the callback in flight reads.
C24_SnapshotsSafe == C24_FreeSnapshot /\ C24_UsedSnapshot /\ C24_Disjoint

\* a write in flight whose tail snapshot the callback has since overtaken
C24_Witness ==
    /\ WriteLoaded
    /\ toWrite > 0
    /\ wTail # tail_
    /\ FreeFrames(wHead, wTail, capacityFrames_) < TrueFree

\* a callback in flight whose head snapshot a write has since overtaken
C24_WitnessCallback ==
    /\ cbPc = "copy"
    /\ framesToRead > 0
    /\ cHead # head_
    /\ WriteLoaded

\* the frames between tail and head are the last frames accepted, whole
C25_Published ==
    audioOut_ =>
        /\ Len(accepted) >= Size * channels_
        /\ RingContents
              = SubSeq(accepted, Len(accepted) - Size * channels_ + 1, Len(accepted))

\* the head store: the frames it publishes are in the buffer already
C25_HeadStore ==
    ProducerWritePublish =>
        /\ buffer_' = buffer_
        /\ \A i \in 1..(toWrite * channels_) :
              buffer_[SlotIndex(head_, (i - 1) \div channels_, (i - 1) % channels_)]
                  = floatBuf[wFrames + i]

\* the copy loop of the callback reads frames a head store has published, and
\* the tail store comes when the output is complete
C25_TailStore ==
    /\ CallbackCopy =>
          /\ framesToRead <= Size
          /\ \A i \in 1..(framesToRead * channels_) :
                buffer_[SlotIndex(cTail, (i - 1) \div channels_, (i - 1) % channels_)]
                    = accepted[Len(delivered) + i]
    /\ CallbackPublish =>
          /\ buffer_' = buffer_
          /\ Len(outBuf) = cbFrames * channels_
          /\ \A i \in 1..Len(outBuf) : outBuf[i] # Unfilled

\* no other step of the two threads stores an index
C25_OnlyStores ==
    (Producer \/ Callback) =>
        /\ head_' # head_ => ProducerWritePublish
        /\ tail_' # tail_ => CallbackPublish

\* C25: publish-after-write ordering.  write stores the new head only after
\* all frames of the call are in the buffer, and the callback stores the new
\* tail only after all its reads; so every slot the callback reads, those
\* from tail up to the head it observed, holds the whole frame data of the
\* write that published it.
C25_PublishAfterWrite ==
    /\ []C25_Published
    /\ [][C25_HeadStore /\ C25_TailStore /\ C25_OnlyStores]_vars

\* a write has stored frames it has yet to publish while the callback is
\* about to read the frames published before
C25_Witness ==
    /\ prodPc = "wpublish"
    /\ toWrite > 0
    /\ cbPc = "copy"
    /\ framesToRead > 0
    /\ Len(delivered) > 0

\* the steps of a write call
C26_WriteSteps ==
    (TestWriteBegin(MaxBatch) \/ ProducerWriteCopy \/ TestWritePublish) =>
        UNCHANGED <<tail_, volume_>>

\* the steps of a callback invocation
C26_CallbackSteps ==
    (CallbackBegin \/ CallbackCopy \/ CallbackPublish) =>
        UNCHANGED <<head_, buffer_, volume_>>

\* the other methods
C26_AccessorSteps ==
    (TestSize \/ TestAvailable \/ TestSetVolume \/ TestGetVolume) =>
        UNCHANGED <<head_, tail_, buffer_, capacityFrames_, channels_>>

\* C26: one-sided index mutation.  On an initialised AudioOutput write never
\* changes tail_, the callback never changes head_ nor a sample stored in the
\* buffer, and size(), available(), setVolume() and getVolume() change
\* neither index nor the buffer.
C26_OneSided == [][C26_WriteSteps /\ C26_CallbackSteps /\ C26_AccessorSteps]_vars

\* available() has returned on a ring whose head has wrapped, after setVolume
\* changed the volume, with a callback that has copied frames in flight
C26_Witness ==
    /\ lastCall.op = "available"
    /\ lastCall.ret > 0
    /\ head_ < tail_
    /\ volume_ # FloatOne
    /\ cbPc = "publish"
    /\ framesToRead > 0

\* the tail store of an invocation that asked for cbFrames frames
C27_TailStep ==
    CallbackPublish =>
        LET occupied == (cHead - cTail) % capacityFrames_
            k == Min(cbFrames, occupied)
        IN  /\ cTail = tail_
            /\ framesToRead = k
            /\ tail_' = (tail_ + k) % capacityFrames_
            /\ k <= TrueOccupied
            /\ (head_ - tail_') % capacityFrames_ = TrueOccupied - k
            /\ occupied < cbFrames => tail_' = cHead
            /\ (occupied < cbFrames /\ head_ = cHead) => Size' = 0

\* what size() reports is the number of frames accepted and not copied out:
\* never negative, never a full ring for an empty one
C27_Count ==
    /\ Len(delivered) <= Len(accepted)
    /\ cbPc # "publish" => Size * channels_ = Len(accepted) - Len(delivered)
    /\ cbPc = "publish" =>
          (Size - framesToRead) * channels_ = Len(accepted) - Len(delivered)

\* C27: the callback never reads past head.  An invocation that asks for N
\* frames advances tail by exactly min(N, occupied) modulo the capacity,
\* occupied being computed from the head it observed; tail never overtakes
\* head, and after an underrun (occupied < N) tail is at the observed head:
\* the ring is empty, not negative and not wrapped to full.
C27_NeverPastHead == []C27_Count /\ [][C27_TailStep]_vars

\* an underrun whose frames run over the end of the ring, while a write has
\* published more frames since the callback loaded head
C27_Witness ==
    /\ cbPc = "publish"
    /\ framesToRead > 0
    /\ framesToRead < cbFrames
    /\ cTail + framesToRead > capacityFrames_
    /\ head_ # cHead

\* the ring is empty after an underrun took the last frames
C27_WitnessEmpty ==
    /\ cbPc = "idle"
    /\ Size = 0
    /\ tail_ # 0
    /\ delivered = accepted
    /\ Len(delivered) = TestFrames

\* how far the producer is from its exit once the stop flag is set: the steps
\* left of the write call it is inside, then the two loop tests
StepsToExit ==
    CASE prodPc = "write" -> 6
      [] prodPc = "wcopy" -> 5
      [] prodPc = "wpublish" -> 4
      [] prodPc = "sleep" -> 3
      [] prodPc = "inner" -> 2
      [] prodPc = "loop" -> 1
      [] OTHER -> 0

\* the producer's steps with the stop flag set
C28_Steps ==
    (Producer /\ stopRequested_) =>
        /\ StepsToExit' < StepsToExit
        /\ prodPc' = "write" => prodPc = "write"
        /\ UNCHANGED decVars
        /\ ProducerDecode => prodPc' = "done"
        /\ ProducerInnerTest => prodPc' = "loop"

\* the flag stays set until the producer is joined
C28_FlagStep ==
    (stopRequested_ /\ ~stopRequested_') => (prodPc = "none" /\ decoderThread_ = "none")

\* with the flag set the producer always has its next step to take, whatever
\* the ring holds and whether or not a callback runs, and once it has exited
\* the join returns
C28_NeverBlocked ==
    /\ (stopRequested_ /\ StepsToExit > 0) => ENABLED Producer
    /\ (ctlPc = "join" /\ StepsToExit = 0) => ENABLED StopJoin

\* C28: cooperative stop is prompt.  Once stop() has set the stop flag the
\* producer enters no further decode call and no further write call: it
\* finishes the write call it is inside, if any, and its next tests of the
\* flag end both loops.  Each of its steps is enabled and brings the exit
\* nearer, with the ring full and no callback running too, so the thread
\* exits within six steps and the join in stop() completes.
C28_PromptStop == []C28_NeverBlocked /\ [][C28_Steps /\ C28_FlagStep]_vars

\* stop() is waiting in the join, the ring is full and no callback has run;
\* the producer, back from the sleep, is at the inner loop's test
C28_Witness ==
    /\ ctlPc = "join"
    /\ stopRequested_
    /\ prodPc = "inner"
    /\ writtenFrames < totalFrames
    /\ ~dummyMode_
    /\ Available = 0
    /\ delivered = <<>>
    /\ cbPc = "idle"

\* the producer has exited on the flag with a full ring and a remainder unwritten
C28_WitnessExited ==
    /\ ctlPc = "join"
    /\ prodPc = "done"
    /\ Available = 0
    /\ ~dummyMode_
    /\ delivered = <<>>

\* where stop() is against the producer, the device and the decoder
C29_Order ==
    /\ StopInProgress => (playing_ /\ stopRequested_ /\ audioOut_)
    /\ ctlPc = "join" =>
          /\ decoder_ /\ decOpen
          /\ dummyMode_ \/ stream_ = "started"
    /\ ctlPc \in {"drain", "drainSleep", "halt"} =>
          /\ prodPc = "none"
          /\ decoderThread_ = "none"
          /\ decoder_ /\ decOpen
    /\ ctlPc \in {"drain", "drainSleep"} => (dummyMode_ \/ stream_ = "started")
    /\ prodPc # "none" =>
          /\ decoder_ /\ decOpen
          /\ playing_
          /\ dummyMode_ \/ stream_ = "started"

\* the steps of stop() called while playing_ is set
C29_Steps ==
    /\ (StopEnter("stop") /\ playing_) =>
          /\ stopRequested_' /\ ctlPc' = "join"
          /\ UNCHANGED <<decoder_, audioOut_, playing_, decoderThread_, decVars,
                         ringVars, devVars, prodVars>>
    /\ StopJoin =>
          /\ prodPc \in {"done", "none"}
          /\ ctlPc' = "drain"
          /\ UNCHANGED <<playing_, stopRequested_, decVars, devVars>>
    /\ (stream_ = "started" /\ stream_' # "started") =>
          (StopHaltRequest /\ prodPc = "none" /\ decOpen' /\ playing_')
    /\ (decOpen /\ ~decOpen') => (prodPc = "none" /\ stream_' # "started")
    /\ (playing_ /\ ~playing_') =>
          /\ StopHalt
          /\ prodPc = "none" /\ decoderThread_ = "none"
          /\ stream_' = (IF dummyMode_ THEN stream_ ELSE "null")
          /\ ~decoder_' /\ ~decOpen'
          /\ ~stopRequested_'

\* C29: the order of stop() from Playing.  The stop flag is set first; the
\* drain wait starts only when the producer thread has been joined; the
\* device is halted and the decoder closed only after the producer has
\* terminated, so the producer never runs with a closed or released decoder;
\* and the playing flag becomes false last, with the device halted and the
\* decoder released.
C29_StopOrder == []C29_Order /\ [][C29_Steps]_vars

\* stop() has joined the producer, waited for the ring to drain and asked the
\* device to halt; the decoder is still open and the playing flag still set
C29_Witness ==
    /\ ctlPc = "halt"
    /\ ctlOp = "stop"
    /\ stream_ = "stopping"
    /\ playing_
    /\ decOpen
    /\ prodPc = "none"
    /\ Len(delivered) > 0

\* the producer thread has been spawned and has not read the stop flag yet
BeforeFirstRead == prodPc = "loop" /\ nSamples = 0

\* C30 as stated: the stop flag is false when the producer first reads it.
C30_FlagFalseAtFirstRead ==
    [][(ProducerDecode /\ BeforeFirstRead) => ~stopRequested_]_vars

\* a producer thread exists only with the device started, and until its first
\* read the stop flag is false unless a stop() is waiting for the thread
C30_Spawned ==
    /\ prodPc # "none" => (playing_ /\ (dummyMode_ \/ stream_ = "started"))
    /\ (BeforeFirstRead /\ ctlPc # "join") => ~stopRequested_

\* play() called in Loaded
C30_PlayStep ==
    (Play /\ SessionState = "Loaded") =>
        /\ lastCall'.op = "play" /\ lastCall'.from = "Loaded"
        /\ prodPc = "none" /\ decoderThread_ = "none" /\ ~stopRequested_
        /\ IF lastCall'.ret
           THEN /\ dummyMode_ \/ stream_' = "started"
                /\ ~stopRequested_'
                /\ playing_'
                /\ decoderThread_' = "joinable"
                /\ prodPc' = "loop"
           ELSE /\ ~dummyMode_
                /\ stream_' = "open"
                /\ ~playing_'
                /\ decoderThread_' = "none"
                /\ prodPc' = "none"
                /\ UNCHANGED <<playerVars, devVars, prodVars>>

\* the producer's first read of the flag
C30_FirstRead ==
    (ProducerDecode /\ BeforeFirstRead /\ stopRequested_) =>
        (ctlPc = "join" /\ lastCall.op \in {"stop", "load"})

\* C30 as amended: play() from Loaded starts the device before it spawns the
\* producer thread and spawns it with the stop flag false, so the producer's
\* first read of the flag finds it false unless a stop() called after play()
\* returned has set it; if the device fails to start, play() returns false
\* with no producer thread spawned and the playing flag still false.
C30_PlayOrder == []C30_Spawned /\ [][C30_PlayStep /\ C30_FirstRead]_vars

\* play() has failed to start the device of a loaded session
C30_Witness ==
    /\ ctlPc = "idle"
    /\ lastCall = [op |-> "play", ret |-> FALSE, from |-> "Loaded"]
    /\ stream_ = "open"
    /\ decoder_
    /\ ~playing_
    /\ prodPc = "none"

\* play() has returned true and the callback has run before the producer's
\* first read of the flag
C30_WitnessSpawned ==
    /\ lastCall = [op |-> "play", ret |-> TRUE, from |-> "Loaded"]
    /\ BeforeFirstRead
    /\ ~stopRequested_
    /\ stream_ = "started"
    /\ cbPc = "publish"

\* the thread decoderThread_ holds is the producer thread, and there is one
\* only while the playing flag is set
C31_OneThread ==
    /\ (decoderThread_ = "joinable") <=> (prodPc # "none")
    /\ ~playing_ => (decoderThread_ = "none" /\ prodPc = "none")
    /\ WriteInFlight => (decoderThread_ = "joinable" /\ playing_ /\ audioOut_)

\* a thread is assigned to decoderThread_ by play() alone, and only when it
\* holds none; play() with a thread alive, running or exited, leaves it and
\* its write call alone
C31_Steps ==
    /\ (decoderThread_' = "joinable" /\ decoderThread_ = "none") =>
          (Play /\ ~playing_ /\ prodPc = "none" /\ prodPc' = "loop")
    /\ (Play /\ decoderThread_ = "joinable") =>
          UNCHANGED <<decoderThread_, playing_, prodVars, writeVars, ringVars, histVars>>
    /\ (decoderThread_ = "joinable" /\ decoderThread_' = "none") =>
          (StopJoin /\ prodPc = "done")

\* C31: single producer.  Over every sequence of load(), play() and stop()
\* calls of the controller thread at most one producer thread is alive:
\* play() assigns a thread to decoderThread_ only when it is not joinable,
\* decoderThread_ is not joinable whenever the playing flag is false, and a
\* thread is given up only by the join of one that has exited; so write is
\* executed by one thread at a time.
C31_SingleProducer == []C31_OneThread /\ [][C31_Steps]_vars

\* play() has returned from a call made after the producer exited at the end
\* of the stream: the exited thread is still the one decoderThread_ holds
C31_Witness ==
    /\ ctlPc = "idle"
    /\ lastCall = [op |-> "play", ret |-> TRUE, from |-> "Playing"]
    /\ prodPc = "done"
    /\ decoderThread_ = "joinable"
    /\ playing_

\* the fill loop has exited with no stop requested: every frame the decoder
\* handed out has gone through write
C32_AllWritten ==
    (prodPc = "done" /\ ~stopRequested_) =>
        /\ decPos % out_channels_ = 0
        /\ ~dummyMode_ => Len(accepted) = decPos

\* the producer leaves the loop without the stop flag only from the decode
\* call, with the batch before it written whole
C32_ExitStep ==
    (Producer /\ prodPc' = "done" /\ ~stopRequested_) =>
        (ProducerDecode /\ writtenFrames = totalFrames /\ decPos' = decPos)

\* C32: producer progress.  With no stop requested, the producer scheduled
\* and the callback invoked again and again, the producer of a file of
\* finitely many batches gets every frame it decoded through write and exits
\* its loop; a full ring only delays it.
C32_ProducerProgress ==
    /\ []C32_AllWritten
    /\ [][C32_ExitStep]_vars
    /\ (prodPc # "done") ~> (prodPc = "done")
    /\ (prodPc = "sleep") ~> (prodPc = "wcopy" /\ toWrite > 0)

\* the producer sleeps on a full ring with the rest of a batch in hand
C32_Witness ==
    /\ prodPc = "sleep"
    /\ Available = 0
    /\ writtenFrames < totalFrames
    /\ decPos < MaxStream * out_channels_
    /\ ~stopRequested_

\* the producer has exited after the whole file went through a ring smaller
\* than the file
C32_WitnessDone ==
    /\ prodPc = "done"
    /\ ~dummyMode_
    /\ Len(accepted) = MaxStream * channels_
    /\ MaxStream > capacityFrames_ - 1

\* isPlaying() while a producer thread exists, running or exited, and no
\* stop() is under way
C33_StillPlaying ==
    (prodPc # "none" /\ ~StopInProgress) => IsPlaying

\* who changes the playing flag
C33_Steps ==
    /\ (Producer \/ Callback) => UNCHANGED playing_
    /\ (playing_ /\ ~playing_') => (StopHalt /\ ctlOp \in {"stop", "load"})
    /\ (~playing_ /\ playing_') => Play
    /\ (Play /\ prodPc = "done") =>
          /\ lastCall' = [op |-> "play", ret |-> AlreadyPlayingResult, from |-> "Playing"]
          /\ UNCHANGED <<playerVars, prodVars, devVars>>

\* C33: the producer thread never changes the playing flag.  After the
\* decoder has reached end-of-stream and the producer has exited,
\* isPlaying() returns true and play() takes the already-playing branch
\* until stop() or load() is called; the flag is cleared by stop() alone, in
\* its last step.
C33_ProducerKeepsPlaying == []C33_StillPlaying /\ [][C33_Steps]_vars

\* the file has played out: the producer has exited, the callback has
\* delivered every frame, and isPlaying() is still true
C33_Witness ==
    /\ prodPc = "done"
    /\ ~stopRequested_
    /\ ctlPc = "idle"
    /\ IsPlaying
    /\ Len(accepted) > 0
    /\ delivered = accepted
    /\ cbPc = "idle"

\* the sample indexes (counted from 1) the copy loop of n frames starting at
\* frame index i touches
AccessIndexes(i, n) ==
    {SlotIndex(i, f, c) : f \in 0..(n - 1), c \in 0..(channels_ - 1)}

C34_Initialised == capacityFrames_ > 0

C34_StoredIndexes ==
    /\ head_ \in 0..(capacityFrames_ - 1)
    /\ tail_ \in 0..(capacityFrames_ - 1)
    /\ prodPc \in {"wcopy", "wpublish"} => wHead \in 0..(capacityFrames_ - 1)
    /\ cbPc \in {"copy", "publish"} => cTail \in 0..(capacityFrames_ - 1)

C34_Accesses ==
    /\ Len(buffer_) = capacityFrames_ * channels_
    /\ prodPc = "wcopy" => AccessIndexes(wHead, toWrite) \subseteq 1..Len(buffer_)
    /\ cbPc = "copy" => AccessIndexes(cTail, framesToRead) \subseteq 1..Len(buffer_)

\* C34: index range.  Once init has sized the ring, head_ and tail_ (and the
\* snapshots write and the callback take of them) lie in
\* 0..capacityFrames_ - 1, and every sample index the two copy loops compute
\* lies inside the capacityFrames_ * channels_ samples of buffer_.
C34_IndexRange == C34_Initialised => (C34_StoredIndexes /\ C34_Accesses)

\* write copies a batch that runs past the last frame of the ring
C34_Witness ==
    /\ prodPc = "wcopy"
    /\ wHead + toWrite > capacityFrames_
    /\ toWrite > 1

\* the callback copies frames that run past the last frame of the ring
C34_WitnessCallback ==
    /\ cbPc = "copy"
    /\ cTail + framesToRead > capacityFrames_
    /\ framesToRead > 1

\* the producer is back at its loop test with the batch it decoded
C35_BatchDone == prodPc = "loop" /\ nSamples > 0

\* the claim as stated: every batch is written as nSamples / channels frames
C35_EveryBatchWhole ==
    C35_BatchDone => writtenFrames = nSamples \div out_channels_

C35_Normalized(f) == 0 - FloatOne <= f /\ f < FloatOne

\* floatBuf[i] is exactly intBuf[i] / 32768, for every sample of the batch
C35_Mapping ==
    (prodPc \notin {"none", "done"} /\ nSamples > 0) =>
        /\ FloatOne % Int16Scale = 0
        /\ Len(floatBuf) = nSamples
        /\ \A i \in 1..nSamples :
              /\ floatBuf[i] = intBuf[i] * (FloatOne \div Int16Scale)
              /\ intBuf[i] = Int16Min => floatBuf[i] = 0 - FloatOne
              /\ intBuf[i] = Int16Max => floatBuf[i] < FloatOne
        /\ \A i, j \in 1..nSamples :
              intBuf[i] < intBuf[j] => floatBuf[i] < floatBuf[j]
        /\ totalFrames * out_channels_ <= nSamples
        /\ nSamples < (totalFrames + 1) * out_channels_

C35_RingValues ==
    /\ \A k \in 1..Len(buffer_) : C35_Normalized(buffer_[k])
    /\ \A k \in 1..Len(accepted) : C35_Normalized(accepted[k])

\* a batch that no stop() interrupted has been written as floor(n / c) frames:
\* the first floor(n / c) * c samples, converted
C35_WholeFrames ==
    (C35_BatchDone /\ ~stopRequested_) =>
        /\ writtenFrames = totalFrames
        /\ ~dummyMode_ =>
              accepted = NormalizeSeq(SubSeq(intBuf, 1, totalFrames * out_channels_))

\* C35: sample normalization.  The producer maps every signed 16-bit sample
\* s to s / 32768: -32768 to exactly -1.0, 32767 to a value below 1.0,
\* strictly increasing, so every value in the ring lies in [-1.0, 1.0); and a
\* batch of n samples with c channels is written as exactly floor(n / c)
\* frames, unless stop() is requested before the batch has been written.
C35_Normalization == C35_Mapping /\ C35_RingValues /\ C35_WholeFrames

\* a two-channel batch of three samples with both extremes has been written
\* to the ring as one frame
C35_Witness ==
    /\ C35_BatchDone
    /\ ~stopRequested_
    /\ ~dummyMode_
    /\ out_channels_ = 2
    /\ nSamples = 3
    /\ intBuf[1] = Int16Min
    /\ intBuf[2] = Int16Max
    /\ accepted = <<0 - FloatOne, FloatOne - 2>>

\* stop() was requested while the batch was being written
C35_WitnessStopped ==
    /\ C35_BatchDone
    /\ stopRequested_
    /\ writtenFrames < totalFrames

\* the last call left the decoder without contexts: the constructor, close(),
\* or an open() that failed
C36_NoSource ==
    \/ lastCall.op \in {"new", "close"}
    \/ lastCall.op = "open" /\ lastCall.ret = 0

C36_Closed == C36_NoSource => (~decOpen /\ ~eof_)

C36_Nothing == lastCall'.ret = 0 /\ intBuf' = intBuf

C36_Steps ==
    /\ (~eof_ /\ eof_') => (TestDecode /\ C36_Nothing)
    /\ (eof_ /\ TestDecode) => (C36_Nothing /\ eof_')
    /\ (eof_ /\ ~eof_') => (TestOpen \/ TestClose)
    /\ (~decOpen /\ TestDecode) => (C36_Nothing /\ ~decOpen')
    /\ (C36_NoSource /\ TestDecode) => C36_Nothing
    /\ (~decOpen /\ decOpen') => (TestOpen /\ lastCall'.ret = 1)

\* C36: end-of-stream is sticky and a closed decoder yields nothing.  eof_ is
\* set by a decode call that returns 0, and from then on every decode call
\* returns 0 and appends nothing until open() or close() is called; a decoder
\* that was never opened, was closed, or whose open() failed has no contexts,
\* and decode on it returns 0 and appends nothing until an open() succeeds.
C36_StickyEnd == []C36_Closed /\ [][C36_Steps]_vars

\* decode has returned 0 on an opened decoder whose input is exhausted, after
\* it had yielded samples
C36_Witness ==
    /\ lastCall.op = "decode"
    /\ lastCall.ret = 0
    /\ decOpen
    /\ eof_
    /\ decPos > 0
    /\ lastCall.arg = Len(intBuf)

\* decode has returned 0 on a decoder that is closed
C36_WitnessClosed ==
    /\ lastCall.op = "decode"
    /\ lastCall.ret = 0
    /\ ~decOpen
    /\ lastCall.arg = Len(intBuf)
    /\ Len(intBuf) > 0

=============================================================================
